---- MODULE Spec2Model ----
(***************************************************************************)
(* minlzma: the XZ container framer (xzstream.c), the LZMA2 chunk framer   *)
(* (lzma2dec.c) and the input cursor (inputbuf.c), with the dictionary,    *)
(* the range coder and the LZMA engine they drive.                         *)
(*                                                                         *)
(* One XzDecode call is a run through the program positions                *)
(*   idle -> StreamHeader -> BlockHeader -> Lz2Enter -> Lz2Loop            *)
(*        -> (LzDecode -> Lz2ChunkEnd -> Lz2Loop)* -> BlockTail            *)
(*        -> Index -> Footer -> idle                                       *)
(* and every failure returns to idle with ret = FALSE.  The globals of the *)
(* library (In, Dt, Rc, Decoder, Chunk, Container) are variables that      *)
(* survive from one call to the next, as they do in the process.           *)
(***************************************************************************)
EXTENDS Integers, Sequences, FiniteSets, TLC

VARIABLES
    MetaChecks,       \* build: MINLZ_META_CHECKS defined
    IntegrityChecks,  \* build: MINLZ_INTEGRITY_CHECKS defined
    InputBuffer,      \* XzDecode argument: the input bytes
    inputId,          \* which input of Inputs this call decodes
    OutputBuffer,     \* XzDecode argument: "NULL" or "buf"
    OutputSizeIn,     \* the value of *OutputSize on entry
    OutputSize,       \* the cell *OutputSize (the chunk framer's tally)
    Output,           \* the bytes written to OutputBuffer, by index
    In,               \* inputbuf.c g_In: Offset, Size
    Dt,               \* dictionary: BufferSize, Offset, Limit, Start
    Rc,               \* range coder: Range, Code, Remaining
    Decoder,          \* LZMA engine: state, rep, base, probs
    Chunk,            \* lzma2dec.c Chunk: RawSize, CompressedSize
    Container,        \* xzstream.c g_Container, and the flag that
                      \* XzChecksumError reports (ChecksumError)
    pc,               \* position inside XzDecode
    ret,              \* what the last XzDecode returned
    lz2,              \* what the chunk loop has observed in this call
    calls,            \* XzDecode calls made so far
    allowed,          \* the inputs this run may pass to XzDecode
    log               \* the results of the finished calls, by arguments

vars == << MetaChecks, IntegrityChecks, InputBuffer, inputId, OutputBuffer,
           OutputSizeIn, OutputSize, Output, In, Dt, Rc, Decoder, Chunk,
           Container, pc, ret, lz2, calls, allowed, log >>

----------------------------------------------------------------------------
(* Fixed-width arithmetic.  A 32-bit word is the pair <<hi, lo>> of its   *)
(* 16-bit halves wherever its full width is used (the range coder, the     *)
(* CRC, the words loaded from the input); sizes and offsets, which stay    *)
(* far below 2^31 for every input here, are plain integers.                *)

U16 == 2^16

RECURSIVE XorN(_, _, _)
XorN(a, b, n) ==
    IF n = 0 \/ (a = 0 /\ b = 0) THEN 0
    ELSE ((a + b) % 2) + 2 * XorN(a \div 2, b \div 2, n - 1)

W32(n) == <<n \div U16, n % U16>>
Xor32(a, b) == <<XorN(a[1], b[1], 16), XorN(a[2], b[2], 16)>>
Not32(a) == <<(U16 - 1) - a[1], (U16 - 1) - a[2]>>
Lt32(a, b) == a[1] < b[1] \/ (a[1] = b[1] /\ a[2] < b[2])
Sub32(a, b) ==
    IF a[2] >= b[2]
    THEN <<(a[1] - b[1]) % U16, a[2] - b[2]>>
    ELSE <<(a[1] - b[1] - 1) % U16, a[2] + U16 - b[2]>>
Shr32(a) == <<a[1] \div 2, (a[1] % 2) * 32768 + a[2] \div 2>>
\* a shifted left by 8 bits, byte in the low bits
Shl8(a, byte) ==
    <<(a[1] % 256) * 256 + a[2] \div 256, (a[2] % 256) * 256 + byte>>
Shl2(a) == <<(a[1] * 4 + a[2] \div 16384) % U16, (a[2] * 4) % U16>>
\* a + b in 32 bits, and whether the sum left the 32 bits
Add32(a, b) ==
    <<(a[1] + b[1] + (a[2] + b[2]) \div U16) % U16, (a[2] + b[2]) % U16>>
Carry32(a, b) == a[1] + b[1] + (a[2] + b[2]) \div U16 >= U16
\* a << n in 32 bits, for n < 32
Shl1(a) == <<(a[1] * 2 + a[2] \div 32768) % U16, (a[2] * 2) % U16>>
RECURSIVE Shl32(_, _)
Shl32(a, n) == IF n = 0 THEN a ELSE Shl32(Shl1(a), n - 1)
\* the integer of a word below 2^31
Int32(a) == a[1] * U16 + a[2]

\* little-endian 32-bit and 16-bit loads at a 0-based offset
LE32(buf, at) ==
    <<buf[at + 3] + 256 * buf[at + 4], buf[at + 1] + 256 * buf[at + 2]>>
LE16(buf, at) == buf[at + 1] + 256 * buf[at + 2]

----------------------------------------------------------------------------
(* CRC-32 (IEEE 802.3), polynomial 0xEDB88320 *)

Crc32Bit(c) ==
    IF c[2] % 2 = 1 THEN Xor32(Shr32(c), <<60856, 33568>>) ELSE Shr32(c)

RECURSIVE Crc32Bits(_, _)
Crc32Bits(c, k) == IF k = 0 THEN c ELSE Crc32Bits(Crc32Bit(c), k - 1)

RECURSIVE Crc32Upd(_, _, _, _)
Crc32Upd(c, buf, at, n) ==
    IF n = 0 \/ c = << >> THEN c
    ELSE Crc32Upd(Crc32Bits(Xor32(c, <<0, buf[at + 1]>>), 8),
                  buf, at + 1, n - 1)

\* CRC-32 of the n bytes of buf from the 0-based offset at
Crc32(buf, at, n) == Not32(Crc32Upd(<<U16 - 1, U16 - 1>>, buf, at, n))

----------------------------------------------------------------------------
(* inputbuf.c: the input cursor *)

\* a faulty BfInitialize that leaves the offset of the earlier call
BfInitializeStale(in, InputSize) == [in EXCEPT !.Size = InputSize]

BfInitialize(in, InputSize) == [in EXCEPT !.Size = InputSize, !.Offset = 0]

\* BfSeek on the uint32_t fields of g_In (Offset, Size and Length are
\* words): the test and the advance are 32-bit sums.  at is the returned
\* pointer as an offset into the buffer, "null" for the null pointer.
BfSeek32(in, Length) ==
    IF Lt32(in.Size, Add32(in.Offset, Length))
    THEN [ok |-> FALSE, In |-> in, at |-> "null"]
    ELSE [ok |-> TRUE,
          In |-> [in EXCEPT !.Offset = Add32(in.Offset, Length)],
          at |-> in.Offset]

\* the byte at offset at of an input of size bytes that repeats buf (in
\* XzDecode buf is the whole input); a byte beyond the input is oob
BfByte(buf, at, size, oob) ==
    IF Lt32(at, size) THEN buf[(at[2] % Len(buf)) + 1] ELSE oob

BfRead32(in, buf, oob) ==
    LET s == BfSeek32(in, <<0, 1>>)
    IN  IF ~s.ok
        THEN [ok |-> FALSE, In |-> s.In, Byte |-> 0]
        ELSE [ok |-> TRUE, In |-> s.In,
              Byte |-> BfByte(buf, s.at, in.Size, oob)]

RECURSIVE BfAlign32(_, _, _)
BfAlign32(in, buf, oob) ==
    IF in.Offset[2] % 4 = 0
    THEN [ok |-> TRUE, In |-> in]
    ELSE LET r == BfRead32(in, buf, oob)
         IN  IF ~r.ok \/ r.Byte # 0
             THEN [ok |-> FALSE, In |-> r.In]
             ELSE BfAlign32(r.In, buf, oob)

\* The same operations on a cursor whose Offset and Size are kept as
\* integers, for inputs below 2^31 bytes (every input of XzDecode here).
BfWords(in) == [Offset |-> W32(in.Offset), Size |-> W32(in.Size)]
BfInts(in) == [Offset |-> Int32(in.Offset), Size |-> Int32(in.Size)]

\* the cursor after seeking Length bytes; at is the returned pointer
\* (a 0-based offset into the buffer), -1 for the null pointer
BfSeekView(s) ==
    [ok |-> s.ok, In |-> BfInts(s.In),
     at |-> IF s.ok THEN Int32(s.at) ELSE -1]
BfSeek(in, Length) == BfSeekView(BfSeek32(BfWords(in), W32(Length)))

BfReadView(r) == [ok |-> r.ok, In |-> BfInts(r.In), Byte |-> r.Byte]
BfRead(in, buf) == BfReadView(BfRead32(BfWords(in), buf, 0))

BfAlignView(r) == [ok |-> r.ok, In |-> BfInts(r.In)]
BfAlign(in, buf) == BfAlignView(BfAlign32(BfWords(in), buf, 0))

----------------------------------------------------------------------------
(* The dictionary: the caller's output buffer as a sliding window *)

DtInitialize(Size) ==
    [BufferSize |-> Size, Offset |-> 0, Limit |-> 0, Start |-> 0]

DtSetLimit(dt, chunkSize) ==
    IF dt.Offset + chunkSize > dt.BufferSize
    THEN [ok |-> FALSE, Dt |-> dt]
    ELSE [ok |-> TRUE,
          Dt |-> [dt EXCEPT !.Limit = dt.Offset + chunkSize,
                            !.Start = dt.Offset]]

\* the byte that lies distance back from the position (0 before the start)
DtByteAt(dt, out, distance) ==
    IF distance >= 1 /\ distance <= dt.Offset
    THEN out[dt.Offset - distance + 1]
    ELSE 0

\* out with byte stored at the 0-based index at
DtStore(out, at, byte) ==
    [i \in 1 .. (IF at + 1 > Len(out) THEN at + 1 ELSE Len(out)) |->
        IF i = at + 1 THEN byte ELSE IF i <= Len(out) THEN out[i] ELSE 0]

\* a faulty put that does not look at the limit
DtPutSymbolUnchecked(dt, out, byte) ==
    [ok |-> TRUE,
     Dt |-> [dt EXCEPT !.Offset = dt.Offset + 1],
     Output |-> DtStore(out, dt.Offset, byte)]

\* the byte is appended at the position, unless the limit is reached
DtPutSymbol(dt, out, byte) ==
    IF dt.Offset = dt.Limit
    THEN [ok |-> FALSE, Dt |-> dt, Output |-> out]
    ELSE [ok |-> TRUE,
          Dt |-> [dt EXCEPT !.Offset = dt.Offset + 1],
          Output |-> DtStore(out, dt.Offset, byte)]

\* a faulty copy that does not compare the distance with the position
RECURSIVE DtCopyMatchAnyDistance(_, _, _, _)
DtCopyMatchAnyDistance(dt, out, distance, length) ==
    IF length = 0 THEN [ok |-> TRUE, Dt |-> dt, Output |-> out]
    ELSE LET p == DtPutSymbol(dt, out, DtByteAt(dt, out, distance))
         IN  IF ~p.ok THEN p
             ELSE DtCopyMatchAnyDistance(p.Dt, p.Output, distance, length - 1)

RECURSIVE DtCopyMatch(_, _, _, _)
DtCopyMatch(dt, out, distance, length) ==
    IF length = 0 THEN [ok |-> TRUE, Dt |-> dt, Output |-> out]
    ELSE IF distance > dt.Offset \/ distance < 1
    THEN [ok |-> FALSE, Dt |-> dt, Output |-> out]
    ELSE LET p == DtPutSymbol(dt, out, DtByteAt(dt, out, distance))
         IN  IF ~p.ok THEN p
             ELSE DtCopyMatch(p.Dt, p.Output, distance, length - 1)

DtIsComplete(dt) ==
    [done |-> dt.Offset = dt.Limit, BytesProcessed |-> dt.Offset - dt.Start]

----------------------------------------------------------------------------
(* The range coder.  An engine value e carries the cursor, the coder, the  *)
(* decoder tables, the dictionary and the output through one sequence:     *)
(* e.ok is cleared by the first failure and e.val is the last decoded      *)
(* bit or symbol.                                                          *)

LZMA_RC_INIT_BYTES == 5

RcInitialize(in, buf, compressedSize) ==
    LET s == BfSeek(in, LZMA_RC_INIT_BYTES)
    IN  IF ~s.ok \/ buf[s.at + 1] # 0
        THEN [ok |-> FALSE, In |-> s.In]
        ELSE [ok |-> TRUE, In |-> s.In,
              Rc |-> [Range |-> <<U16 - 1, U16 - 1>>,
                      Code |-> <<256 * buf[s.at + 2] + buf[s.at + 3],
                                 256 * buf[s.at + 4] + buf[s.at + 5]>>,
                      Remaining |-> compressedSize - LZMA_RC_INIT_BYTES,
                      Size |-> compressedSize]]

RcIsComplete(rc) ==
    [done |-> rc.Code = <<0, 0>>, BytesProcessed |-> rc.Size - rc.Remaining]

\* the coder after the byte read r is shifted in; e.coder notes what the
\* coder did in this sequence: norms counts the bytes shifted in, starved
\* is set when the budget was used up, low when a bit was decided on a
\* range below 2^24
RcShiftIn(e, r) ==
    IF ~r.ok THEN [e EXCEPT !.ok = FALSE]
    ELSE [e EXCEPT !.In = r.In,
                   !.Rc.Range = Shl8(e.Rc.Range, 0),
                   !.Rc.Code = Shl8(e.Rc.Code, r.Byte),
                   !.Rc.Remaining = e.Rc.Remaining - 1,
                   !.coder.norms = @ + 1]

\* a faulty normalisation that does not look at the budget
RcNormalizeUnbudgeted(e, buf) ==
    IF ~e.ok \/ e.Rc.Range[1] >= 256 THEN e
    ELSE RcShiftIn(e, BfRead(e.In, buf))

\* range < 2^24: one byte is shifted in, unless the budget is used up
RcNormalize(e, buf) ==
    IF ~e.ok \/ e.Rc.Range[1] >= 256 THEN e
    ELSE IF e.Rc.Remaining <= 0
    THEN [e EXCEPT !.ok = FALSE, !.coder.starved = TRUE]
    ELSE RcShiftIn(e, BfRead(e.In, buf))

Prob(d, key) == IF key \in DOMAIN d.probs THEN d.probs[key] ELSE d.base

\* (range >> 11) * prob
RcBound(range, prob) ==
    LET x == range[1] * 32 + range[2] \div 2048
        t == (x % U16) * prob
    IN  <<(x \div U16) * prob + t \div U16, t % U16>>

\* the bit of the probability key, on the normalized coder n
RcBit(n, key) ==
    LET p == Prob(n.Decoder, key)
        bound == RcBound(n.Rc.Range, Prob(n.Decoder, key))
    IN  IF ~n.ok THEN n
        ELSE IF Lt32(n.Rc.Code, bound)
        THEN [n EXCEPT !.Rc.Range = bound,
                       !.Decoder.probs = (key :> (p + ((2048 - p) \div 32))) @@ @,
                       !.val = 0,
                       !.coder.low = @ \/ n.Rc.Range[1] < 256]
        ELSE [n EXCEPT !.Rc.Range = Sub32(n.Rc.Range, bound),
                       !.Rc.Code = Sub32(n.Rc.Code, bound),
                       !.Decoder.probs = (key :> (p - (p \div 32))) @@ @,
                       !.val = 1,
                       !.coder.low = @ \/ n.Rc.Range[1] < 256]

RcDecodeBit(e, buf, key) == RcBit(RcNormalize(e, buf), key)

\* n equal-probability bits, most significant first, appended to v
RECURSIVE RcDecodeDirect(_, _, _, _)
RECURSIVE RcDirectBit(_, _, _, _)
RcDirectBit(m, buf, n, v) ==
    IF ~m.ok THEN m
    ELSE IF ~Lt32(m.Rc.Code, Shr32(m.Rc.Range))
    THEN RcDecodeDirect(
             [m EXCEPT !.Rc.Range = Shr32(m.Rc.Range),
                       !.Rc.Code = Sub32(m.Rc.Code, Shr32(m.Rc.Range)),
                       !.coder.low = @ \/ m.Rc.Range[1] < 256],
             buf, n - 1, 2 * v + 1)
    ELSE RcDecodeDirect([m EXCEPT !.Rc.Range = Shr32(m.Rc.Range),
                                  !.coder.low = @ \/ m.Rc.Range[1] < 256],
                        buf, n - 1, 2 * v)

RcDecodeDirect(e, buf, n, v) ==
    IF ~e.ok \/ n = 0 THEN [e EXCEPT !.val = v]
    ELSE RcDirectBit(RcNormalize(e, buf), buf, n, v)

\* a balanced tree of 2^n leaves over the probabilities <<name, k, i>>;
\* val is the tree index reached from i (the symbol plus 2^n from i = 1)
RECURSIVE RcDecodeTree(_, _, _, _, _, _)
RECURSIVE RcTreeStep(_, _, _, _, _, _)
RcTreeStep(b, buf, name, k, n, i) ==
    RcDecodeTree(b, buf, name, k, n - 1, 2 * i + b.val)

RcDecodeTree(e, buf, name, k, n, i) ==
    IF ~e.ok \/ n = 0 THEN [e EXCEPT !.val = i]
    ELSE RcTreeStep(RcDecodeBit(e, buf, <<name, k, i>>), buf, name, k, n, i)

\* the same tree, its bits emitted least significant first into v
RECURSIVE RcDecodeReverseTree(_, _, _, _, _, _, _, _)
RECURSIVE RcReverseTreeStep(_, _, _, _, _, _, _, _)
RcReverseTreeStep(b, buf, name, k, n, i, j, v) ==
    RcDecodeReverseTree(b, buf, name, k, n, 2 * i + b.val, j + 1,
                        v + b.val * 2^j)

RcDecodeReverseTree(e, buf, name, k, n, i, j, v) ==
    IF ~e.ok \/ j = n THEN [e EXCEPT !.val = v]
    ELSE RcReverseTreeStep(RcDecodeBit(e, buf, <<name, k, i>>),
                           buf, name, k, n, i, j, v)

\* an 8-bit tree steered by the bits of matchByte until the first mismatch
RECURSIVE RcDecodeMatchedLiteral(_, _, _, _, _, _)
RECURSIVE RcMatchedLiteralStep(_, _, _, _, _, _)
RcMatchedLiteralStep(b, buf, lit, matchByte, i, matched) ==
    RcDecodeMatchedLiteral(b, buf, lit, (matchByte * 2) % 256, 2 * i + b.val,
                           matched /\ b.val = (matchByte \div 128) % 2)

RcDecodeMatchedLiteral(e, buf, lit, matchByte, i, matched) ==
    IF ~e.ok \/ i >= 256 THEN [e EXCEPT !.val = i]
    ELSE RcMatchedLiteralStep(
             RcDecodeBit(e, buf,
                 IF matched
                 THEN <<(IF (matchByte \div 128) % 2 = 1
                         THEN "litMatch1" ELSE "litMatch0"), lit, i>>
                 ELSE <<"lit", lit, i>>),
             buf, lit, matchByte, i, matched)

----------------------------------------------------------------------------
(* The LZMA engine: lc = 3, lp = 0, pb = 2 *)

LZMA_PROPERTIES == 93          \* (pb * 5 + lp) * 9 + lc
LZMA_MAX_SEQUENCE_SIZE == 21

\* the property byte must name lc = 3, lp = 0, pb = 2; the tables are reset
\* to probability one half, the state to 0 and the rep distances to 0
LzInitialize(d, propertyByte) ==
    IF propertyByte # LZMA_PROPERTIES
    THEN [ok |-> FALSE, Decoder |-> d]
    ELSE [ok |-> TRUE,
          Decoder |-> [state |-> 0, rep |-> <<0, 0, 0, 0>>, base |-> 1024,
                       probs |-> << >>]]

\* a faulty transition that leaves the state as it is
LzKeepState(s) == s

\* the state after a literal, a match, a long rep and a short rep
LzNextLiteral(s) == IF s < 4 THEN 0 ELSE IF s < 10 THEN s - 3 ELSE s - 6
LzNextMatch(s) == IF s < 7 THEN 7 ELSE 10
LzNextRep(s) == IF s < 7 THEN 8 ELSE 11
LzNextShortRep(s) == IF s < 7 THEN 9 ELSE 11

Min(a, b) == IF a < b THEN a ELSE b

\* e with d added to its value
AddVal(e, d) == [e EXCEPT !.val = @ + d]

\* e.val: a length in 2 .. 273
LzLengthHigh(c2, buf, name, posState) ==
    IF ~c2.ok THEN c2
    ELSE IF c2.val = 0
    THEN AddVal(RcDecodeTree(c2, buf, name, 5 + posState, 3, 1), 10 - 8)
    ELSE AddVal(RcDecodeTree(c2, buf, name, 9, 8, 1), 18 - 256)

LzLengthLow(c1, buf, name, posState) ==
    IF ~c1.ok THEN c1
    ELSE IF c1.val = 0
    THEN AddVal(RcDecodeTree(c1, buf, name, 1 + posState, 3, 1), 2 - 8)
    ELSE LzLengthHigh(RcDecodeBit(c1, buf, <<name, 0, 1>>), buf, name,
                      posState)

LzDecodeLength(e, buf, name, posState) ==
    LzLengthLow(RcDecodeBit(e, buf, <<name, 0, 0>>), buf, name, posState)

\* A distance of 2^30 or more lies beyond every dictionary position here
\* and is kept as LzFarDistance; 0xFFFFFFFF, the end marker, as LzEndMarker.
LzFarDistance == 2^30
LzEndMarker == 0 - 1

\* the distance of slot from its high bits, direct bits and align bits al.val
LzDistanceValue(al, slot, high, direct) ==
    IF slot < 60 THEN [al EXCEPT !.val = high + direct * 16 + al.val]
    ELSE IF slot = 63 /\ direct = 2^26 - 1 /\ al.val = 15
    THEN [al EXCEPT !.val = LzEndMarker]
    ELSE [al EXCEPT !.val = LzFarDistance]

LzDistanceAlign(dr, buf, slot, high) ==
    LzDistanceValue(RcDecodeReverseTree(dr, buf, "posAlign", 0, 4, 1, 0, 0),
                    slot, high, dr.val)

\* t.val - 64 is the position slot
LzDistanceSlot(t, buf) ==
    LET slot == t.val - 64
        midBits == ((t.val - 64) \div 2) - 1
        high == (2 + (t.val % 2)) * 2^(((t.val - 64) \div 2) - 1)
    IN  IF ~t.ok THEN t
        ELSE IF slot < 4 THEN [t EXCEPT !.val = slot]
        ELSE IF slot < 14
        THEN AddVal(RcDecodeReverseTree(t, buf, "posSpecial", slot, midBits,
                                        1, 0, 0), high)
        ELSE LzDistanceAlign(RcDecodeDirect(t, buf, midBits - 4, 0), buf,
                             slot, IF slot < 60 THEN high ELSE 0)

\* e.val: the distance less one, as the format stores it
LzDecodeDistance(e, buf, length) ==
    LzDistanceSlot(RcDecodeTree(e, buf, "posSlot", Min(length - 2, 3), 6, 1),
                   buf)

\* the copy that ends a match or rep: rep[1] is the distance less one;
\* e.copy notes the distance, the position before the copy, the bytes the
\* copy wrote and its result
LzCopy(e, length) ==
    LET c == DtCopyMatch(e.Dt, e.Output, e.Decoder.rep[1] + 1, length)
    IN  [e EXCEPT !.ok = e.ok /\ c.ok, !.Dt = c.Dt, !.Output = c.Output,
                  !.copy = [distance |-> e.Decoder.rep[1] + 1,
                            position |-> e.Dt.Offset,
                            written |-> c.Dt.Offset - e.Dt.Offset,
                            ok |-> c.ok]]

\* the literal sym.val - 256 is put and the state advanced from s
LzPutLiteral(sym, s) ==
    LET put == DtPutSymbol(sym.Dt, sym.Output, sym.val - 256)
    IN  IF ~sym.ok THEN sym
        ELSE [sym EXCEPT !.ok = put.ok, !.Dt = put.Dt, !.Output = put.Output,
                         !.Decoder.state = LzNextLiteral(s),
                         !.lz.event = "literal"]

\* e.lz notes the event of this sequence and which literal decoder was
\* chosen for it
LzDecodeLiteral(e, buf) ==
    LET lit == DtByteAt(e.Dt, e.Output, 1) \div 32
    IN  LzPutLiteral(
            IF e.Decoder.state < 7
            THEN RcDecodeTree([e EXCEPT !.lz.mode = "plain"], buf, "lit",
                              lit, 8, 1)
            ELSE RcDecodeMatchedLiteral([e EXCEPT !.lz.mode = "matched"],
                     buf, lit,
                     DtByteAt(e.Dt, e.Output, e.Decoder.rep[1] + 1), 1, TRUE),
            e.Decoder.state)

LzMatchCopy(dist, length) ==
    IF ~dist.ok THEN dist
    ELSE IF dist.val = LzEndMarker THEN [dist EXCEPT !.ok = FALSE]
    ELSE LzCopy([dist EXCEPT
                    !.Decoder.rep = <<dist.val, @[1], @[2], @[3]>>,
                    !.Decoder.state = LzNextMatch(@),
                    !.lz.event = "match"],
                length)

LzMatchDistance(len, buf) ==
    IF ~len.ok THEN len
    ELSE LzMatchCopy(LzDecodeDistance(len, buf, len.val), len.val)

LzDecodeMatch(e, buf, posState) ==
    LzMatchDistance(LzDecodeLength(e, buf, "len", posState), buf)

LzRepCopy(len) ==
    IF ~len.ok THEN len
    ELSE LzCopy([len EXCEPT !.Decoder.state = LzNextRep(@),
                            !.lz.event = "rep"], len.val)

\* sel: the chosen distance is rep[1]
LzRepLength(sel, buf, posState) ==
    LzRepCopy(LzDecodeLength(sel, buf, "rep", posState))

LzRepG2(g2, buf, posState) ==
    IF ~g2.ok THEN g2
    ELSE LzRepLength(
             [g2 EXCEPT !.Decoder.rep = IF g2.val = 0
                                        THEN <<@[3], @[1], @[2], @[4]>>
                                        ELSE <<@[4], @[1], @[2], @[3]>>],
             buf, posState)

LzRepG1(g1, buf, posState) ==
    IF ~g1.ok THEN g1
    ELSE IF g1.val = 0
    THEN LzRepLength([g1 EXCEPT !.Decoder.rep = <<@[2], @[1], @[3], @[4]>>],
                     buf, posState)
    ELSE LzRepG2(RcDecodeBit(g1, buf, <<"isRepG2", g1.Decoder.state, 0>>),
                 buf, posState)

LzRepShort(long, buf, posState) ==
    IF ~long.ok THEN long
    ELSE IF long.val = 0
    THEN LzCopy([long EXCEPT !.Decoder.state = LzNextShortRep(@),
                             !.lz.event = "shortrep"], 1)
    ELSE LzRepLength(long, buf, posState)

LzRepG0(g0, buf, posState) ==
    IF ~g0.ok THEN g0
    ELSE IF g0.val = 0
    THEN LzRepShort(RcDecodeBit(g0, buf, <<"isRep0Long", g0.Decoder.state,
                                           posState>>), buf, posState)
    ELSE LzRepG1(RcDecodeBit(g0, buf, <<"isRepG1", g0.Decoder.state, 0>>),
                 buf, posState)

LzDecodeRep(e, buf, posState) ==
    LzRepG0(RcDecodeBit(e, buf, <<"isRepG0", e.Decoder.state, 0>>), buf,
            posState)

LzMatchKind(r, buf, posState) ==
    IF ~r.ok THEN r
    ELSE IF r.val = 0 THEN LzDecodeMatch(r, buf, posState)
    ELSE LzDecodeRep(r, buf, posState)

LzSequenceKind(m, buf, posState) ==
    IF ~m.ok THEN m
    ELSE IF m.val = 0 THEN LzDecodeLiteral(m, buf)
    ELSE LzMatchKind(RcDecodeBit(m, buf, <<"isRep", m.Decoder.state, 0>>),
                     buf, posState)

\* one LZMA sequence: a literal, a match or a rep
LzDecodeSequence(e, buf) ==
    LzSequenceKind(RcDecodeBit(e, buf, <<"isMatch", e.Decoder.state,
                                         e.Dt.Offset % 4>>),
                   buf, e.Dt.Offset % 4)

----------------------------------------------------------------------------
(* lzma2dec.h: the LZMA2 control byte *)

Lzma2NoReset == 0
Lzma2SimpleReset == 1
Lzma2PropertyReset == 2
Lzma2FullReset == 3

IsLzma(controlByte) == controlByte \div 128
ResetState(controlByte) == (controlByte \div 32) % 4
LzmaRawSize(controlByte) == controlByte % 32

----------------------------------------------------------------------------
(* xzstream.h: the layout of the container's structures *)

XzStreamHeaderSize == 12     \* Magic[6], Flags (2), Crc32 (4)
XzBlockHeaderSize == 12      \* Size, Flags, Id, Size, DictionarySize,
                             \* Padding[3], Crc32 (4)
XzStreamFooterSize == 12     \* Crc32 (4), BackwardSize (4), Flags (2), Magic
XzCheckTypeNone == 0
XzCheckTypeCrc32 == 1
VLI_BYTES_MAX == 9

\* the check type is the second byte of the two flag bytes
XzCheckType(buf, flagsAt) == buf[flagsAt + 2]

\* a | b on words
RECURSIVE OrN(_, _, _)
OrN(a, b, n) ==
    IF n = 0 \/ (a = 0 /\ b = 0) THEN 0
    ELSE (IF a % 2 = 1 \/ b % 2 = 1 THEN 1 ELSE 0)
           + 2 * OrN(a \div 2, b \div 2, n - 1)
Or32(a, b) == <<OrN(a[1], b[1], 16), OrN(a[2], b[2], 16)>>

\* What a shift of an int by 32 bits or more yields is undefined: the
\* count is taken modulo 32 ("mask"), or the result is 0 ("zero").
UbShifts == {"mask", "zero"}

\* (vli_type)((vliByte & 0x7F) << bitPos), with vli_type uint32_t: group
\* is an int, and of the shifted int the low 32 bits are kept
VliGroup(group, bitPos, ub) ==
    IF bitPos < 28 THEN W32(group * 2^bitPos)
    ELSE IF bitPos = 28 THEN <<(group % 16) * 4096, 0>>
    ELSE IF ub = "mask" THEN W32(group * 2^(bitPos % 32))
    ELSE <<0, 0>>

\* xzstream.c XzDecodeVli, on the cursor in; Vli is a word
RECURSIVE XzDecodeVliMore(_, _, _, _, _, _)
XzDecodeVliMore(in, buf, vliByte, bitPos, vli, ub) ==
    IF vliByte \div 128 = 0 THEN [ok |-> TRUE, In |-> in, Vli |-> vli]
    ELSE LET r == BfRead(in, buf)
         IN  IF ~r.ok THEN [ok |-> FALSE, In |-> r.In, Vli |-> vli]
             ELSE IF bitPos = 7 * VLI_BYTES_MAX \/ r.Byte = 0
             THEN [ok |-> FALSE, In |-> r.In, Vli |-> vli]
             ELSE XzDecodeVliMore(r.In, buf, r.Byte, bitPos + 7,
                     Or32(vli, VliGroup(r.Byte % 128, bitPos, ub)), ub)

XzDecodeVli(in, buf, ub) ==
    LET r == BfRead(in, buf)
    IN  IF ~r.ok THEN [ok |-> FALSE, In |-> r.In, Vli |-> <<0, 0>>]
        ELSE XzDecodeVliMore(r.In, buf, r.Byte, 7, <<0, r.Byte % 128>>, ub)

----------------------------------------------------------------------------
(* The inputs.  ChunkA and ChunkB are LZMA2 chunks written by liblzma      *)
(* (lc = 3, lp = 0, pb = 2, full reset) for PlainA and PlainB; the streams *)
(* wrap them in the XZ container of a 4 KiB dictionary.                    *)

MaxTrunc == 40     \* the most trailing bytes removed from a stream

PlainA ==
  <<0,1,0,0,1,1,0,0,1,0,0,1,1,0,1,1,0,0,1,0,1,0,1,1,1,0,0,0,0,1,0,1,0,0,1,
    1>>
PlainB ==
  <<1,0,1,0,1,1,0,1,0,0,1,1,1,0,1,1,0,1,1,0,0,0,0,0,1,1,1,1,1,0,1,0,1,0,1,
    0,1,1,0,1,0>>
PlainU == <<104, 105, 10>>
PlainT == <<0, 0, 0, 0, 0, 0, 0, 0, 0, 0>>
PlainV == <<1, 2, 3, 4>>
PlainW == <<2,0,2,2,1,2,0,0,2,0,1,1,0,2,1,2,0,2,2,1,0,0>>
ChunkA ==
  <<224,0,35,0,20,93,0,0,0,81,247,241,130,18,221,35,37,177,29,28,106,94,74,
    101,245,209,0>>
ChunkB ==
  <<224,0,40,0,20,93,0,0,128,37,173,78,87,69,44,143,40,52,78,14,40,43,111,
    192,61,184,0>>
\* the chunk liblzma writes for PlainW: its sequences are literals, a
\* short rep, matches and a long rep
ChunkW ==
  <<224,0,21,0,20,93,0,0,255,252,148,6,99,2,190,32,141,111,254,162,183,44,
    133,72,0,0,0>>
\* the chunk liblzma writes for PlainT: 7 compressed bytes
ChunkT == <<224,0,9,0,6,93,0,0,107,126,82,0,0>>

Zeros(n) == [i \in 1 .. n |-> 0]
Patch(seq, i, b) == [seq EXCEPT ![i] = b]
\* seq with the lowest bit of its byte i flipped
FlipBit(seq, i) == Patch(seq, i, XorN(seq[i], 1, 8))
\* the four bytes of a 32-bit word, little-endian
LE32Bytes(w) == <<w[2] % 256, w[2] \div 256, w[1] % 256, w[1] \div 256>>

RECURSIVE VliBytes(_)
VliBytes(n) ==
    IF n < 128 THEN <<n>> ELSE <<128 + (n % 128)>> \o VliBytes(n \div 128)

WithCrcFirst(bytes) == LE32Bytes(Crc32(bytes, 0, Len(bytes))) \o bytes
WithCrc(bytes) == bytes \o LE32Bytes(Crc32(bytes, 0, Len(bytes)))

\* a single-block XZ stream around an LZMA2 payload that decodes to plain
XzStreamIdx(check, dictCode, payload, plain, unpadded, uncompressed) ==
    LET flags == <<0, check>>
        hdr == <<253, 55, 122, 88, 90, 0>> \o WithCrc(flags)
        bh == WithCrc(<<2, 0, 33, 1, dictCode, 0, 0, 0>>)
        chk == IF check = XzCheckTypeCrc32
               THEN LE32Bytes(Crc32(plain, 0, Len(plain))) ELSE << >>
        rec == <<0>> \o VliBytes(1) \o unpadded \o uncompressed
        idx == rec \o Zeros((4 - (Len(rec) % 4)) % 4)
        ft == LE32Bytes(W32(Len(idx) \div 4)) \o flags
    IN  hdr \o bh \o payload \o Zeros((4 - (Len(payload) % 4)) % 4) \o chk
            \o WithCrc(idx) \o LE32Bytes(Crc32(ft, 0, Len(ft))) \o ft
            \o <<89, 90>>

\* the stream whose index records the sizes of its block
XzStream(check, dictCode, payload, plain) ==
    XzStreamIdx(check, dictCode, payload, plain,
                VliBytes(XzBlockHeaderSize + Len(payload)
                           + (IF check = XzCheckTypeCrc32 THEN 4 ELSE 0)),
                VliBytes(Len(plain)))

\* stream with the two flag bytes of its footer replaced by flags and the
\* footer's CRC computed anew
SetFooterFlags(stream, flags) ==
    SubSeq(stream, 1, Len(stream) - 12)
        \o WithCrcFirst(SubSeq(stream, Len(stream) - 7, Len(stream) - 4)
                           \o flags)
        \o <<89, 90>>

\* ChunkA as a first chunk without any reset (no property byte)
ChunkANone == <<128>> \o SubSeq(ChunkA, 2, 5) \o SubSeq(ChunkA, 7, Len(ChunkA))
\* ChunkB as a later chunk: properties reset, or no reset (no property byte)
ChunkBProps == Patch(ChunkB, 1, 192)
ChunkBNone == <<128>> \o SubSeq(ChunkB, 2, 5) \o SubSeq(ChunkB, 7, Len(ChunkB))
\* ChunkB as a later chunk with a state-only reset: the coder's state and
\* probabilities start afresh, the dictionary goes on (no property byte)
ChunkBState == Patch(ChunkBNone, 1, 160)

\* The streams by name.  "valid" streams are well-formed XZ files that
\* liblzma decodes to "plain"; "sizes" are the output sizes tried with them.
Base ==
    [A  |-> [bytes |-> XzStream(1, 0, ChunkA \o <<0>>, PlainA),
             plain |-> PlainA, valid |-> TRUE],
     AB |-> [bytes |-> XzStream(1, 0, ChunkA \o ChunkBProps \o <<0>>,
                                PlainA \o PlainB),
             plain |-> PlainA \o PlainB, valid |-> TRUE],
     U  |-> [bytes |-> XzStream(1, 0, <<1, 0, 2>> \o PlainU \o <<0>>, PlainU),
             plain |-> PlainU, valid |-> TRUE],
     UB |-> [bytes |-> XzStream(1, 0, <<1, 0, 3>> \o PlainV \o ChunkBProps
                                         \o <<0>>, PlainV \o PlainB),
             plain |-> PlainV \o PlainB, valid |-> TRUE],
     E  |-> [bytes |-> XzStream(1, 0, <<0>>, << >>),
             plain |-> << >>, valid |-> TRUE],
     N  |-> [bytes |-> XzStream(0, 0, ChunkA \o <<0>>, PlainA),
             plain |-> PlainA, valid |-> TRUE],
     P  |-> [bytes |-> XzStream(1, 0, Patch(ChunkA, 6, 92) \o <<0>>, PlainA),
             plain |-> PlainA, valid |-> FALSE],
     R  |-> [bytes |-> XzStream(1, 0, ChunkA \o ChunkBNone \o <<0>>,
                                PlainA \o PlainB),
             plain |-> PlainA \o PlainB, valid |-> FALSE],
     S  |-> [bytes |-> XzStream(1, 0, ChunkA \o ChunkBState \o <<0>>,
                                PlainA \o PlainB),
             plain |-> PlainA \o PlainB, valid |-> TRUE],
     H  |-> [bytes |-> FlipBit(XzStream(1, 0, ChunkA \o <<0>>, PlainA), 9),
             plain |-> PlainA, valid |-> FALSE],
     F  |-> [bytes |-> SetFooterFlags(XzStream(1, 0, ChunkA \o <<0>>,
                                               PlainA), <<0, 0>>),
             plain |-> PlainA, valid |-> FALSE],
     V  |-> [bytes |-> XzStreamIdx(1, 0, ChunkA \o <<0>>, PlainA,
                                   <<128 + 44, 128, 128, 128, 16>>,
                                   VliBytes(Len(PlainA))),
             plain |-> PlainA, valid |-> FALSE],
     X  |-> [bytes |-> XzStream(1, 0, Patch(ChunkA, 5, 200) \o <<0>>, PlainA),
             plain |-> PlainA, valid |-> FALSE],
     O  |-> [bytes |-> XzStream(1, 0, Patch(ChunkA, 2, 16) \o <<0>>, PlainA),
             plain |-> PlainA, valid |-> FALSE],
     Z  |-> [bytes |-> XzStream(1, 0, Patch(ChunkA, Len(ChunkA), 1) \o <<0>>,
                                PlainA),
             plain |-> PlainA, valid |-> FALSE],
     K  |-> [bytes |-> XzStream(1, 0, ChunkANone \o <<0>>, PlainA),
             plain |-> PlainA, valid |-> FALSE],
     T  |-> [bytes |-> XzStream(1, 0, ChunkT \o <<0>>, PlainT),
             plain |-> PlainT, valid |-> TRUE],
     AT |-> [bytes |-> XzStream(1, 0, ChunkA \o Patch(ChunkT, 1, 192)
                                         \o <<0>>, PlainA \o PlainT),
             plain |-> PlainA \o PlainT, valid |-> FALSE],
     L  |-> [bytes |-> XzStream(1, 0, Patch(ChunkA, 3, 30) \o <<0>>, PlainA),
             plain |-> PlainA, valid |-> FALSE],
     Y  |-> [bytes |-> XzStream(1, 0, Patch(ChunkA, 5, 12) \o <<0>>, PlainA),
             plain |-> PlainA, valid |-> FALSE],
     W  |-> [bytes |-> XzStream(1, 0, ChunkW \o <<0>>, PlainW),
             plain |-> PlainW, valid |-> TRUE]]

BaseNames == DOMAIN Base
TruncNames == {"A", "AB", "U", "N"}

\* an input is a named stream less its last k bytes
InputIds ==
    {<<n, 0>> : n \in BaseNames}
        \cup {<<n, k>> : n \in TruncNames, k \in 1 .. MaxTrunc}

InputBytes(id) ==
    SubSeq(Base[id[1]].bytes, 1, Len(Base[id[1]].bytes) - id[2])
Plain(id) == Base[id[1]].plain
Valid(id) == Base[id[1]].valid /\ id[2] = 0

DictSize0 == 2 * 2^11    \* the dictionary size of dictionary-size code 0

OutSizes(id) ==
    IF id[2] > 0 THEN {Len(Plain(id)) + 1, DictSize0}
    ELSE {Len(Plain(id)), Len(Plain(id)) + 1, DictSize0}
            \cup (IF Len(Plain(id)) > 0 THEN {Len(Plain(id)) - 1} ELSE {})
            \cup (IF id[1] \in {"AB", "R"} THEN {Len(PlainA)} ELSE {})
            \cup (IF id[1] = "O" THEN {2 * DictSize0} ELSE {})

\* the argument triples of XzDecode: input, output buffer, *OutputSize
AllArgs ==
    {<<id, "NULL", 0>> : id \in InputIds}
        \cup UNION {{<<id, "buf", n>> : n \in OutSizes(id)} : id \in InputIds}

----------------------------------------------------------------------------
(* The initial state: the globals of a freshly loaded process are zero *)

Builds == {<<TRUE, TRUE>>, <<TRUE, FALSE>>, <<FALSE, FALSE>>}

\* What the model records about the chunk loop, for the properties only:
\* the last control byte and where it was read, where the next chunk was
\* due to start, the cursor after the info bytes, the property bytes
\* consumed, the tally and output before the iteration, how far the
\* iteration went, and whether LzInitialize has run since XzDecodeBlock
\* was entered, whether an LZMA chunk's header declared fewer than
\* LZMA_MAX_SEQUENCE_SIZE compressed bytes, and whether a sequence failed
\* with the dictionary at its limit; copy is the copy that the last
\* sequence of LzDecode made and coder what the range coder did in it;
\* event is the last event of the LZMA state since LzInitialize, prev the
\* event before the last sequence and mode the literal decoder chosen in it.
\* no copy was made by the last sequence
NoCopy == [distance |-> 0, position |-> 0, written |-> 0, ok |-> FALSE]

\* the range coder has done nothing in the last sequence
NoCoder == [norms |-> 0, starved |-> FALSE, low |-> FALSE]

NoChunk ==
    [ctl |-> -1, off |-> 0, boundary |-> 0, hdr |-> 0, props |-> 0,
     prop |-> -1, stage |-> "none", tally |-> 0, out |-> << >>,
     clean |-> TRUE, chunks |-> 0, sum |-> 0, overflow |-> FALSE,
     short |-> FALSE, inputStart |-> 0, ret |-> "none", inited |-> FALSE,
     small |-> FALSE, full |-> FALSE, copy |-> NoCopy, coder |-> NoCoder,
     event |-> "none", prev |-> "none", mode |-> "none"]

InitWith(args, budget) ==
    /\ \E b \in Builds : MetaChecks = b[1] /\ IntegrityChecks = b[2]
    /\ InputBuffer = << >>
    /\ inputId = <<"A", 0>>
    /\ OutputBuffer = "NULL"
    /\ OutputSizeIn = 0
    /\ OutputSize = 0
    /\ Output = << >>
    /\ In = [Offset |-> 0, Size |-> 0]
    /\ Dt = [BufferSize |-> 0, Offset |-> 0, Limit |-> 0, Start |-> 0]
    /\ Rc = [Range |-> <<0, 0>>, Code |-> <<0, 0>>, Remaining |-> 0,
             Size |-> 0]
    /\ Decoder = [state |-> 0, rep |-> <<0, 0, 0, 0>>, base |-> 0,
                  probs |-> << >>]
    /\ Chunk = [RawSize |-> 0, CompressedSize |-> 0]
    /\ Container = [HeaderSize |-> 0, IndexSize |-> 0,
                    UncompressedBlockSize |-> 0, UnpaddedBlockSize |-> 0,
                    ChecksumSize |-> 0, ChecksumError |-> FALSE]
    /\ pc = "idle"
    /\ ret = FALSE
    /\ lz2 = NoChunk
    /\ calls = 0
    /\ allowed = [args |-> args, budget |-> budget]
    /\ log = << >>

Init == InitWith(AllArgs, 1)

GetSizeOnly == OutputBuffer = "NULL"

\* XzDecode returns v with size in *OutputSize and out in the output buffer
Return(v, size, out) ==
    /\ pc' = "idle"
    /\ ret' = v
    /\ OutputSize' = size
    /\ Output' = out
    /\ log' = Append(log, [id |-> inputId, buffer |-> OutputBuffer,
                            sizeIn |-> OutputSizeIn, ret |-> v,
                            size |-> size, out |-> out])

----------------------------------------------------------------------------
(* xzstream.c XzDecode: entry *)

\* the call XzDecode(InputBuffer, InputSize, OutputBuffer, OutputSize) on
\* the input named id, up to the first of its steps
Call(id, buffer, size) ==
    /\ InputBuffer' = InputBytes(id)
    /\ inputId' = id
    /\ OutputBuffer' = buffer
    /\ OutputSizeIn' = size
    /\ OutputSize' = size
    /\ Output' = << >>
    /\ In' = BfInitialize(In, Len(InputBytes(id)))
    /\ Dt' = DtInitialize(size)
    /\ pc' = "StreamHeader"
    /\ lz2' = NoChunk
    /\ calls' = calls + 1
    /\ UNCHANGED << MetaChecks, IntegrityChecks, Rc, Decoder, Chunk,
                    Container, ret, allowed, log >>

XzDecode(id, buffer, size) ==
    /\ pc = "idle"
    /\ calls < allowed.budget
    /\ <<id, buffer, size>> \in allowed.args
    /\ Call(id, buffer, size)

(* xzstream.c main: after a size query that returned true, the same input *)
(* is decoded into a buffer of the size the query left in *OutputSize     *)

XzDecodeSized ==
    /\ pc = "idle"
    /\ calls >= 1
    /\ calls < allowed.budget + 1
    /\ OutputBuffer = "NULL"
    /\ ret
    /\ Call(inputId, "buf", OutputSize)

(* xzstream.c XzDecodeStreamHeader *)

StreamHeaderMetaOk(buf, at) ==
    /\ LE32(buf, at + 1) = <<23128, 31287>>    \* 'ZXz7' = 0x5A587A37
    /\ buf[at + 1] = 253
    /\ buf[at + 6] = 0
    /\ ~ (/\ LE16(buf, at + 6) # 0
          /\ XzCheckType(buf, at + 6) # XzCheckTypeCrc32
          /\ XzCheckType(buf, at + 6) # XzCheckTypeNone)

XzDecodeStreamHeader ==
    /\ pc = "StreamHeader"
    /\ LET s == BfSeek(In, XzStreamHeaderSize)
           metaOk == ~MetaChecks \/ StreamHeaderMetaOk(InputBuffer, s.at)
           crcOk == \/ ~IntegrityChecks
                    \/ Crc32(InputBuffer, s.at + 6, 2)
                           = LE32(InputBuffer, s.at + 8)
       IN  /\ In' = s.In
           /\ Container' =
                  IF s.ok /\ MetaChecks /\ metaOk
                  THEN [Container EXCEPT !.ChecksumSize =
                            XzCheckType(InputBuffer, s.at + 6) * 4]
                  ELSE Container
           /\ IF s.ok /\ metaOk /\ crcOk
              THEN /\ pc' = "BlockHeader"
                   /\ UNCHANGED << ret, OutputSize, Output, log >>
              ELSE Return(FALSE, OutputSize, Output)
    /\ UNCHANGED << MetaChecks, IntegrityChecks, InputBuffer, inputId,
                    OutputBuffer, OutputSizeIn, Dt, Rc, Decoder, Chunk, lz2,
                    calls, allowed >>

(* xzstream.c XzDecodeBlockHeader *)

\* a faulty dictionary size, shifted one bit too far
DictionarySizeShifted(d) == Shl32(<<0, 2 + (d % 2)>>, (d \div 2) + 12)

\* size = (2 + (size & 1)) << ((size >> 1) + 11), in uint32_t
DictionarySize(d) == Shl32(<<0, 2 + (d % 2)>>, (d \div 2) + 11)

\* size > OutputSize, for the word outputSize
DictionaryExceeds(d, outputSize) == Lt32(outputSize, DictionarySize(d))

\* the meta checks that follow the header size, in order
BlockHeaderMetaOk(buf, at, outputSize) ==
    /\ buf[at + 2] = 0                                 \* Flags
    /\ buf[at + 3] = 33                                \* LzmaFlags.Id
    /\ buf[at + 4] = 1                                 \* LzmaFlags.Size
    /\ buf[at + 5] <= 39                               \* DictionarySize
    /\ ~DictionaryExceeds(buf[at + 5], outputSize)

\* XzDecodeBlockHeader(size), size being the word in *OutputSize
XzDecodeBlockHeaderOn(size) ==
    /\ pc = "BlockHeader"
    /\ LET s == BfSeek(In, XzBlockHeaderSize)
           headerSize == (InputBuffer[s.at + 1] + 1) * 4
           metaOk == \/ ~MetaChecks
                     \/ /\ headerSize = XzBlockHeaderSize
                        /\ BlockHeaderMetaOk(InputBuffer, s.at, size)
           crcOk == \/ ~IntegrityChecks
                    \/ Crc32(InputBuffer, s.at, Container'.HeaderSize - 4)
                           = LE32(InputBuffer, s.at + 8)
       IN  /\ In' = s.In
           /\ Container' =
                  IF s.ok /\ MetaChecks
                  THEN [Container EXCEPT !.HeaderSize = headerSize]
                  ELSE Container
           /\ IF s.ok /\ metaOk /\ crcOk
              THEN /\ pc' = "Block"
                   /\ UNCHANGED << ret, OutputSize, Output, log >>
              ELSE Return(FALSE, OutputSize, Output)
    /\ UNCHANGED << MetaChecks, IntegrityChecks, InputBuffer, inputId,
                    OutputBuffer, OutputSizeIn, Dt, Rc, Decoder, Chunk, lz2,
                    calls, allowed >>

XzDecodeBlockHeader == XzDecodeBlockHeaderOn(W32(OutputSize))

(* xzstream.c XzDecodeBlock, up to the chunk loop of Lz2DecodeStream *)

XzDecodeBlock ==
    /\ pc = "Block"
    /\ lz2' = [NoChunk EXCEPT !.inputStart = In.Offset,
                            !.boundary = In.Offset]
    /\ OutputSize' = 0
    /\ pc' = "Lz2Loop"
    /\ UNCHANGED << MetaChecks, IntegrityChecks, InputBuffer, inputId,
                    OutputBuffer, OutputSizeIn, Output, In, Dt, Rc, Decoder,
                    Chunk, Container, ret, calls, allowed, log >>

----------------------------------------------------------------------------
(* lzma2dec.c Lz2DecodeStream: one iteration of the chunk loop *)

\* a faulty tally that keeps only the last chunk's size
Lz2TallyLast(tally, n) == n

\* the tally *BytesProcessed after n more bytes
Lz2Tally(tally, n) == tally + n

\* a faulty limit that is set without looking at the size of the output
Lz2SetLimitAny(getSizeOnly, dt, rawSize) ==
    [ok |-> TRUE,
     Dt |-> [dt EXCEPT !.Limit = dt.Offset + rawSize, !.Start = dt.Offset]]

\* the chunk must fit the output, unless only the size is wanted
Lz2SetLimit(getSizeOnly, dt, rawSize) ==
    IF getSizeOnly THEN [ok |-> TRUE, Dt |-> dt] ELSE DtSetLimit(dt, rawSize)

\* a faulty test that forgets the properties reset
NeedsPropertiesFullOnly(controlByte) ==
    ResetState(controlByte) = Lzma2FullReset

\* a full reset and a properties reset carry a property byte
NeedsProperties(controlByte) ==
    \/ ResetState(controlByte) = Lzma2FullReset
    \/ ResetState(controlByte) = Lzma2PropertyReset

\* a faulty test that never sees the end of the stream
NeverEndOfStream(controlByte) == FALSE

\* the control byte that ends the stream
IsEndOfStream(controlByte) == controlByte = 0

\* the uncompressed chunk's bytes buf[at + 1 .. at + n] put one by one;
\* the result of DtPutSymbol is not looked at
RECURSIVE DtPutSymbols(_, _, _, _, _)
DtPutSymbols(dt, out, buf, at, n) ==
    IF n = 0 THEN [Dt |-> dt, Output |-> out]
    ELSE LET p == DtPutSymbol(dt, out, buf[at + 1])
         IN  DtPutSymbols(p.Dt, p.Output, buf, at + 1, n - 1)

\* The iteration works on g: the globals In, Dt, Decoder, Chunk, Rc, Output
\* and the tally, with next = "go" while the iteration runs and then "fail"
\* (return false), "end" (return true), "loop" (continue) or "chunk"
\* (Lz2DecodeChunk is called).  The fields stage, ctl, hdr, props, prop,
\* payload, short and over are kept for the properties only.

\* the control byte is read
Lz2Control(g, buf) ==
    LET r == BfRead(g.In, buf)
    IN  IF ~r.ok THEN [g EXCEPT !.next = "fail", !.stage = "eof"]
        ELSE IF IsEndOfStream(r.Byte)
        THEN [g EXCEPT !.In = r.In, !.ctl = r.Byte, !.next = "end",
                       !.stage = "end"]
        ELSE [g EXCEPT !.In = r.In, !.ctl = r.Byte]

\* the info bytes are read and the sizes of the chunk computed
Lz2Info(g, buf) ==
    LET s == BfSeek(g.In, IF IsLzma(g.ctl) = 1 THEN 4 ELSE 2)
    IN  IF g.next # "go" THEN g
        ELSE IF ~s.ok THEN [g EXCEPT !.next = "fail", !.stage = "info"]
        ELSE [g EXCEPT
                 !.In = s.In,
                 !.hdr = s.In.Offset,
                 !.Chunk =
                     [RawSize |->
                          (IF IsLzma(g.ctl) = 1
                           THEN LzmaRawSize(g.ctl) * 65536 ELSE 0)
                            + buf[s.at + 1] * 256 + buf[s.at + 2] + 1,
                      CompressedSize |->
                          IF IsLzma(g.ctl) = 1
                          THEN (buf[s.at + 3] * 256 + buf[s.at + 4] + 1) % U16
                          ELSE g.Chunk.CompressedSize]]

\* the chunk must fit what is left of the output
Lz2Limit(g, getSizeOnly) ==
    LET lim == Lz2SetLimit(getSizeOnly, g.Dt, g.Chunk.RawSize)
        over == ~getSizeOnly /\ g.Dt.Offset + g.Chunk.RawSize > g.Dt.BufferSize
    IN  IF g.next # "go" THEN g
        ELSE IF ~lim.ok
        THEN [g EXCEPT !.next = "fail", !.stage = "limit", !.over = over]
        ELSE [g EXCEPT !.Dt = lim.Dt, !.over = over]

\* the property byte is read and the decoder reset, if the chunk says so
Lz2Reset(g, buf) ==
    LET pr == BfRead(g.In, buf)
        li == LzInitialize(g.Decoder, BfRead(g.In, buf).Byte)
    IN  IF g.next # "go" THEN g
        ELSE IF NeedsProperties(g.ctl)
        THEN IF ~pr.ok \/ ~li.ok
             THEN [g EXCEPT !.In = pr.In, !.next = "fail", !.stage = "reset",
                            !.props = pr.In.Offset - g.hdr,
                            !.prop = IF pr.ok THEN pr.Byte ELSE -1]
             ELSE [g EXCEPT !.In = pr.In, !.Decoder = li.Decoder,
                            !.props = pr.In.Offset - g.hdr,
                            !.prop = pr.Byte]
        ELSE IF ResetState(g.ctl) # Lzma2NoReset
        THEN [g EXCEPT !.next = "fail", !.stage = "reset"]
        ELSE g

\* the payload is skipped, copied, or handed to the range coder
Lz2Payload(g, getSizeOnly, buf) ==
    LET payload == IF IsLzma(g.ctl) = 1 THEN g.Chunk.CompressedSize
                   ELSE g.Chunk.RawSize
        skip == BfSeek(g.In, IF IsLzma(g.ctl) = 1 THEN g.Chunk.CompressedSize
                             ELSE g.Chunk.RawSize)
        raw == BfSeek(g.In, g.Chunk.RawSize)
        put == DtPutSymbols(g.Dt, g.Output, buf,
                            BfSeek(g.In, g.Chunk.RawSize).at, g.Chunk.RawSize)
        rci == RcInitialize(g.In, buf, g.Chunk.CompressedSize)
        h == [g EXCEPT !.payload = payload,
                       !.short = g.In.Offset + payload > g.In.Size]
    IN  IF g.next # "go" THEN g
        ELSE IF getSizeOnly
        THEN [h EXCEPT !.next = "loop", !.stage = "skip", !.In = skip.In,
                       !.tally = Lz2Tally(g.tally, g.Chunk.RawSize)]
        ELSE IF IsLzma(g.ctl) = 0
        THEN IF ~raw.ok THEN [h EXCEPT !.next = "fail", !.stage = "copy"]
             ELSE [h EXCEPT !.next = "loop", !.stage = "copy",
                            !.In = raw.In, !.Dt = put.Dt,
                            !.Output = put.Output,
                            !.tally = Lz2Tally(g.tally, g.Chunk.RawSize)]
        ELSE IF ~rci.ok
        THEN [h EXCEPT !.next = "fail", !.stage = "rc", !.In = rci.In]
        ELSE [h EXCEPT !.next = "chunk", !.stage = "chunk", !.In = rci.In,
                       !.Rc = rci.Rc]

Lz2Iteration(g, getSizeOnly, buf) ==
    Lz2Payload(
        Lz2Reset(Lz2Limit(Lz2Info(Lz2Control(g, buf), buf), getSizeOnly),
                 buf),
        getSizeOnly, buf)

Globals ==
    [In |-> In, Dt |-> Dt, Decoder |-> Decoder, Chunk |-> Chunk, Rc |-> Rc,
     Output |-> Output, tally |-> OutputSize, next |-> "go",
     stage |-> "none", ctl |-> -1, hdr |-> 0, props |-> 0, prop |-> -1,
     payload |-> 0, short |-> FALSE, over |-> FALSE]

\* what the model records of the iteration i that began in this state
Lz2Record(i) ==
    [lz2 EXCEPT
        !.ctl = i.ctl, !.off = In.Offset, !.hdr = i.hdr, !.props = i.props,
        !.prop = i.prop, !.stage = i.stage, !.tally = OutputSize,
        !.out = Output,
        !.boundary = IF i.next \in {"loop", "chunk"}
                     THEN i.hdr + i.props + i.payload ELSE @,
        !.clean = IF i.next = "loop" THEN @ /\ ~i.short
                  ELSE IF i.next = "fail" THEN FALSE ELSE @,
        !.chunks = IF i.next = "loop" THEN @ + 1 ELSE @,
        !.sum = IF i.next = "loop" THEN @ + i.Chunk.RawSize ELSE @,
        !.inited = @ \/ i.prop = LZMA_PROPERTIES,
        !.event = IF i.prop = LZMA_PROPERTIES THEN "none" ELSE @,
        !.mode = "none",
        !.small = @ \/ (/\ i.next \in {"loop", "chunk"} /\ IsLzma(i.ctl) = 1
                         /\ i.Chunk.CompressedSize < LZMA_MAX_SEQUENCE_SIZE),
        !.overflow = @ \/ i.over,
        !.short = @ \/ i.short,
        !.ret = IF i.next = "fail" THEN "false"
                ELSE IF i.next = "end" THEN "true" ELSE @]

\* the step of the program after the iteration i
Lz2Continue(i) ==
    /\ In' = i.In
    /\ Dt' = i.Dt
    /\ Decoder' = i.Decoder
    /\ Chunk' = i.Chunk
    /\ Rc' = i.Rc
    /\ lz2' = Lz2Record(i)
    /\ IF i.next = "fail"
       THEN Return(FALSE, i.tally, i.Output)
       ELSE /\ pc' = IF i.next = "end" THEN "BlockTail"
                     ELSE IF i.next = "loop" THEN "Lz2Loop"
                     ELSE "Chunk"
            /\ OutputSize' = i.tally
            /\ Output' = i.Output
            /\ UNCHANGED << ret, log >>

Lz2DecodeStream ==
    /\ pc = "Lz2Loop"
    /\ Lz2Continue(Lz2Iteration(Globals, GetSizeOnly, InputBuffer))
    /\ UNCHANGED << MetaChecks, IntegrityChecks, InputBuffer, inputId,
                    OutputBuffer, OutputSizeIn, Container, calls, allowed >>

(* lzma2dec.c Lz2DecodeChunk: the check before the chunk is decoded *)

\* a faulty test that lets every chunk through
Lz2ChunkNeverTooSmall(chunk) == FALSE

\* the chunk has no space for the biggest possible LZMA sequence
Lz2ChunkTooSmall(chunk) == chunk.CompressedSize < LZMA_MAX_SEQUENCE_SIZE

Lz2DecodeChunk ==
    /\ pc = "Chunk"
    /\ IF Lz2ChunkTooSmall(Chunk)
       THEN /\ Return(FALSE, OutputSize, Output)
            /\ lz2' = [lz2 EXCEPT !.ret = "false", !.clean = FALSE]
       ELSE /\ pc' = "LzDecode"
            /\ UNCHANGED << ret, OutputSize, Output, log, lz2 >>
    /\ UNCHANGED << MetaChecks, IntegrityChecks, InputBuffer, inputId,
                    OutputBuffer, OutputSizeIn, In, Dt, Rc, Decoder, Chunk,
                    Container, calls, allowed >>

(* LzDecode: one sequence of the chunk per step, until the dictionary's *)
(* limit is reached                                                     *)

\* the last event of the LZMA state: this sequence's, if it came to one
LzLastEvent(e) == IF e.lz.event # "none" THEN e.lz.event ELSE lz2.event

\* the step of the program after the sequence that left the engine in e
LzContinue(e) ==
    /\ In' = e.In
    /\ Rc' = e.Rc
    /\ Decoder' = e.Decoder
    /\ Dt' = e.Dt
    /\ IF ~e.ok
       THEN /\ Return(FALSE, OutputSize, e.Output)
            /\ lz2' = [lz2 EXCEPT !.ret = "false", !.clean = FALSE,
                                  !.full = e.Dt.Offset = e.Dt.Limit,
                                  !.copy = e.copy, !.coder = e.coder,
                                  !.event = LzLastEvent(e),
                                  !.prev = lz2.event, !.mode = e.lz.mode]
       ELSE /\ pc' = IF e.Dt.Offset >= e.Dt.Limit
                     THEN "ChunkEnd" ELSE "LzDecode"
            /\ Output' = e.Output
            /\ lz2' = [lz2 EXCEPT !.copy = e.copy, !.coder = e.coder,
                                  !.event = LzLastEvent(e),
                                  !.prev = lz2.event, !.mode = e.lz.mode]
            /\ UNCHANGED << ret, OutputSize, log >>

LzDecode ==
    /\ pc = "LzDecode"
    /\ LzContinue(LzDecodeSequence(
                      [ok |-> TRUE, In |-> In, Rc |-> Rc, Decoder |-> Decoder,
                       Dt |-> Dt, Output |-> Output, val |-> 0,
                       copy |-> NoCopy, coder |-> NoCoder,
                       lz |-> [event |-> "none", mode |-> "none"]],
                      InputBuffer))
    /\ UNCHANGED << MetaChecks, IntegrityChecks, InputBuffer, inputId,
                    OutputBuffer, OutputSizeIn, Chunk, Container, calls,
                    allowed >>

(* lzma2dec.c Lz2DecodeChunk: the checks after the chunk is decoded *)

\* a faulty test that does not look at the coder's code
Lz2ChunkAnyCode(rc, dt, chunk) ==
    /\ rc.BytesProcessed = chunk.CompressedSize
    /\ dt.done /\ dt.BytesProcessed = chunk.RawSize

\* the coder and the dictionary ended where the chunk's header says
Lz2ChunkIsComplete(rc, dt, chunk) ==
    /\ rc.done /\ rc.BytesProcessed = chunk.CompressedSize
    /\ dt.done /\ dt.BytesProcessed = chunk.RawSize

Lz2DecodeChunkEnd ==
    /\ pc = "ChunkEnd"
    /\ LET rc == RcIsComplete(Rc)
           dt == DtIsComplete(Dt)
       IN  IF Lz2ChunkIsComplete(rc, dt, Chunk)
           THEN /\ OutputSize' = Lz2Tally(OutputSize, dt.BytesProcessed)
                /\ pc' = "Lz2Loop"
                /\ lz2' = [lz2 EXCEPT !.chunks = @ + 1,
                                      !.sum = @ + Chunk.RawSize]
                /\ UNCHANGED << ret, Output, log >>
           ELSE /\ Return(FALSE, OutputSize, Output)
                /\ lz2' = [lz2 EXCEPT !.ret = "false", !.clean = FALSE]
    /\ UNCHANGED << MetaChecks, IntegrityChecks, InputBuffer, inputId,
                    OutputBuffer, OutputSizeIn, In, Dt, Rc, Decoder, Chunk,
                    Container, calls, allowed >>

----------------------------------------------------------------------------
(* xzstream.c XzDecodeBlock, after Lz2DecodeStream returned true *)

\* the first n bytes of the output buffer
OutputView(out, n) ==
    [i \in 1 .. n |-> IF i <= Len(out) THEN out[i] ELSE 0]

\* a faulty build that never decodes the index and the footer
NoContainerTail(meta) == FALSE

\* the index and the footer are decoded in builds with the meta checks
ChecksContainerTail(meta) == meta

\* The block's CRC32 is compared with the four bytes at inputEnd even when
\* the stream has no checksum; when fewer than four bytes of the input
\* remain the read leaves the input buffer and either outcome may follow.
BlockCrcOutcomes(buf, at, out, n) ==
    IF at + 4 > Len(buf) THEN BOOLEAN
    ELSE {Crc32(OutputView(out, n), 0, n) = LE32(buf, at)}

XzDecodeBlockTail ==
    /\ pc = "BlockTail"
    /\ LET c1 == IF MetaChecks
                 THEN [Container EXCEPT
                          !.UnpaddedBlockSize =
                              Container.HeaderSize
                                 + (In.Offset - lz2.inputStart),
                          !.UncompressedBlockSize = OutputSize]
                 ELSE Container
           a == BfAlign(In, InputBuffer)
           s == IF MetaChecks \/ IntegrityChecks
                THEN BfSeek(a.In, Container.ChecksumSize)
                ELSE [ok |-> TRUE, In |-> a.In, at |-> a.In.Offset]
       IN  \E crcOk \in (IF IntegrityChecks /\ a.ok /\ s.ok
                         THEN BlockCrcOutcomes(InputBuffer, s.at, Output,
                                               OutputSize)
                         ELSE {TRUE}) :
             /\ In' = IF a.ok THEN s.In ELSE a.In
             /\ Container' =
                    IF MetaChecks /\ a.ok /\ s.ok /\ crcOk
                    THEN [c1 EXCEPT !.UnpaddedBlockSize =
                              @ + Container.ChecksumSize]
                    ELSE c1
             /\ IF ~(a.ok /\ s.ok /\ crcOk)
                THEN Return(FALSE, OutputSize, Output)
                ELSE IF ChecksContainerTail(MetaChecks)
                THEN /\ pc' = "Index"
                     /\ UNCHANGED << ret, OutputSize, Output, log >>
                ELSE Return(TRUE, OutputSize, Output)
    /\ UNCHANGED << MetaChecks, IntegrityChecks, InputBuffer, inputId,
                    OutputBuffer, OutputSizeIn, Dt, Rc, Decoder, Chunk, lz2,
                    calls, allowed >>

(* xzstream.c XzDecodeIndex *)

XzDecodeIndex ==
    /\ pc = "Index"
    /\ \E ub \in UbShifts :
        LET indexStart == In.Offset
            b == BfRead(In, InputBuffer)
            v1 == XzDecodeVli(b.In, InputBuffer, ub)
            v2 == XzDecodeVli(v1.In, InputBuffer, ub)
            v3 == XzDecodeVli(v2.In, InputBuffer, ub)
            a == BfAlign(v3.In, InputBuffer)
            indexSize == a.In.Offset - indexStart
            s == BfSeek(a.In, 4)
            crcOk == \/ ~IntegrityChecks
                     \/ Crc32(InputBuffer, indexStart, indexSize)
                            = LE32(InputBuffer, s.at)
            r == IF ~b.ok \/ b.Byte # 0 THEN [ok |-> FALSE, In |-> b.In]
                 ELSE IF ~v1.ok \/ v1.Vli # <<0, 1>>
                 THEN [ok |-> FALSE, In |-> v1.In]
                 ELSE IF ~v2.ok \/ W32(Container.UnpaddedBlockSize) # v2.Vli
                 THEN [ok |-> FALSE, In |-> v2.In]
                 ELSE IF \/ ~v3.ok
                         \/ W32(Container.UncompressedBlockSize) # v3.Vli
                 THEN [ok |-> FALSE, In |-> v3.In]
                 ELSE IF ~a.ok THEN [ok |-> FALSE, In |-> a.In]
                 ELSE IF ~s.ok THEN [ok |-> FALSE, In |-> s.In]
                 ELSE [ok |-> crcOk, In |-> s.In]
            reachedSize ==
                /\ b.ok /\ b.Byte = 0 /\ v1.ok /\ v1.Vli = <<0, 1>>
                /\ v2.ok /\ W32(Container.UnpaddedBlockSize) = v2.Vli
                /\ v3.ok /\ W32(Container.UncompressedBlockSize) = v3.Vli
                /\ a.ok
        IN  /\ In' = r.In
            /\ Container' = IF reachedSize
                            THEN [Container EXCEPT !.IndexSize = indexSize]
                            ELSE Container
            /\ IF r.ok
               THEN /\ pc' = "StreamFooter"
                    /\ UNCHANGED << ret, OutputSize, Output, log >>
               ELSE Return(FALSE, OutputSize, Output)
    /\ UNCHANGED << MetaChecks, IntegrityChecks, InputBuffer, inputId,
                    OutputBuffer, OutputSizeIn, Dt, Rc, Decoder, Chunk, lz2,
                    calls, allowed >>

(* xzstream.c XzDecodeStreamFooter *)

StreamFooterOk(buf, at, indexSize, integrity) ==
    /\ LE16(buf, at + 10) = 23129                      \* 'ZY'
    /\ ~ (/\ LE16(buf, at + 8) # 0
          /\ XzCheckType(buf, at + 8) # XzCheckTypeCrc32
          /\ XzCheckType(buf, at + 8) # XzCheckTypeNone)
    /\ W32(indexSize) = Shl2(LE32(buf, at + 4))
    /\ (integrity => Crc32(buf, at + 4, 6) = LE32(buf, at))

XzDecodeStreamFooter ==
    /\ pc = "StreamFooter"
    /\ LET s == BfSeek(In, XzStreamFooterSize)
       IN  /\ In' = s.In
           /\ Return(s.ok /\ StreamFooterOk(InputBuffer, s.at,
                                            Container.IndexSize,
                                            IntegrityChecks),
                     OutputSize, Output)
    /\ UNCHANGED << MetaChecks, IntegrityChecks, InputBuffer, inputId,
                    OutputBuffer, OutputSizeIn, Dt, Rc, Decoder, Chunk,
                    Container, lz2, calls, allowed >>

----------------------------------------------------------------------------
(* The program: one XzDecode call at a time, each run to its return *)

Next ==
    \/ \E args \in AllArgs : XzDecode(args[1], args[2], args[3])
    \/ XzDecodeSized
    \/ XzDecodeStreamHeader
    \/ XzDecodeBlockHeader
    \/ XzDecodeBlock
    \/ Lz2DecodeStream
    \/ Lz2DecodeChunk
    \/ LzDecode
    \/ Lz2DecodeChunkEnd
    \/ XzDecodeBlockTail
    \/ XzDecodeIndex
    \/ XzDecodeStreamFooter

Spec == Init /\ [][Next]_vars

\* Repeated calls in one process: up to MaxCalls calls drawn from RepeatArgs
MaxCalls == 3

RepeatArgs ==
    {<<<<"A", 0>>, "NULL", 0>>, <<<<"A", 0>>, "buf", DictSize0>>,
     <<<<"U", 9>>, "buf", DictSize0>>, <<<<"K", 0>>, "buf", DictSize0>>}

InitRepeat == InitWith(RepeatArgs, MaxCalls)

SpecRepeat == InitRepeat /\ [][Next]_vars

----------------------------------------------------------------------------
(* minlzma.h XzChecksumError: whether the last XzDecode met a checksum  *)
(* error.  The flag it reports is zero when the process starts.          *)

XzChecksumError == Container.ChecksumError

----------------------------------------------------------------------------
(* The input cursor on its own: BfInitialize, then up to MaxBfCalls calls  *)
(* of BfSeek, BfRead and BfAlign on the uint32_t fields.  The input is    *)
(* InputBuffer repeated up to In.Size bytes; a read that leaves the input *)
(* yields any byte of BfOob.  log holds the last call.                    *)

MaxBfCalls == 3

BfSizes ==
    {<<0, 0>>, <<0, 3>>, <<0, 6>>, <<0, 8>>, <<U16 - 1, U16 - 2>>,
     <<U16 - 1, U16 - 1>>}
BfLengths ==
    {<<0, 0>>, <<0, 1>>, <<0, 2>>, <<0, 4>>, <<1, 0>>, <<U16 - 1, U16 - 3>>,
     <<U16 - 1, U16 - 1>>}
BfPatterns == {<<0, 0, 0, 0>>, <<0, 0, 0, 1>>, <<0, 1, 0, 0>>}
BfOob == {0, 1}

BfInitialize32(in, InputSize) ==
    [in EXCEPT !.Size = InputSize, !.Offset = <<0, 0>>]

\* a state in which no XzDecode call runs: the cursor in on the input buf
StandaloneWith(meta, buf, in, at, budget, size) ==
    /\ MetaChecks = meta
    /\ IntegrityChecks = FALSE
    /\ InputBuffer = buf
    /\ inputId = <<"A", 0>>
    /\ OutputBuffer = "NULL"
    /\ OutputSizeIn = size
    /\ OutputSize = size
    /\ Output = << >>
    /\ In = in
    /\ Dt = [BufferSize |-> 0, Offset |-> 0, Limit |-> 0, Start |-> 0]
    /\ Rc = [Range |-> <<0, 0>>, Code |-> <<0, 0>>, Remaining |-> 0,
             Size |-> 0]
    /\ Decoder = [state |-> 0, rep |-> <<0, 0, 0, 0>>, base |-> 0,
                  probs |-> << >>]
    /\ Chunk = [RawSize |-> 0, CompressedSize |-> 0]
    /\ Container = [HeaderSize |-> 0, IndexSize |-> 0,
                    UncompressedBlockSize |-> 0, UnpaddedBlockSize |-> 0,
                    ChecksumSize |-> 0, ChecksumError |-> FALSE]
    /\ pc = at
    /\ ret = FALSE
    /\ lz2 = NoChunk
    /\ calls = 0
    /\ allowed = [args |-> {}, budget |-> budget]
    /\ log = << >>

Standalone(buf, in, at, budget) ==
    StandaloneWith(FALSE, buf, in, at, budget, 0)

InitBf ==
    \E buf \in BfPatterns, n \in BfSizes :
        Standalone(buf,
                   BfInitialize32([Offset |-> <<0, 0>>, Size |-> <<0, 0>>],
                                  n),
                   "cursor", MaxBfCalls)

\* the call op(Length) with the result r
BfCall(op, Length, oob, r) ==
    /\ pc = "cursor"
    /\ calls < allowed.budget
    /\ In' = r.In
    /\ ret' = r.ok
    /\ calls' = calls + 1
    /\ log' = <<[op |-> op, Length |-> Length, oob |-> oob, before |-> In,
                 after |-> r.In, ok |-> r.ok]>>
    /\ UNCHANGED << MetaChecks, IntegrityChecks, InputBuffer, inputId,
                    OutputBuffer, OutputSizeIn, OutputSize, Output, Dt, Rc,
                    Decoder, Chunk, Container, pc, lz2, allowed >>

BfSeekCall ==
    \E Length \in BfLengths :
        BfCall("BfSeek", Length, 0, BfSeek32(In, Length))

BfReadCall ==
    \E oob \in BfOob :
        BfCall("BfRead", <<0, 1>>, oob, BfRead32(In, InputBuffer, oob))

BfAlignCall ==
    \E oob \in BfOob :
        BfCall("BfAlign", <<0, 0>>, oob, BfAlign32(In, InputBuffer, oob))

NextBf == BfSeekCall \/ BfReadCall \/ BfAlignCall

SpecBf == InitBf /\ [][NextBf]_vars

----------------------------------------------------------------------------
(* XzDecodeVli on its own: one call at the start of an input of up to    *)
(* MaxVliBytes bytes; log holds its result.                              *)

MaxVliBytes == 10

VliMore == {128, 129, 255}      \* bytes with the high bit set
VliLast == {0, 1, 16, 127}      \* bytes with the high bit clear
VliRun(b, k) == [i \in 1 .. k |-> b]
VliInputs ==
    {VliRun(b, k) \o <<l>> :
         b \in VliMore, k \in 0 .. MaxVliBytes - 1, l \in VliLast}
      \cup {VliRun(b, k) : b \in VliMore, k \in 0 .. MaxVliBytes}

InitVli ==
    \E buf \in VliInputs :
        Standalone(buf, BfInitialize([Offset |-> 0, Size |-> 0], Len(buf)),
                   "vli", 1)

XzDecodeVliCall ==
    /\ pc = "vli"
    /\ \E ub \in UbShifts :
          /\ In' = XzDecodeVli(In, InputBuffer, ub).In
          /\ ret' = XzDecodeVli(In, InputBuffer, ub).ok
          /\ log' = <<[ok |-> XzDecodeVli(In, InputBuffer, ub).ok,
                       Vli |-> XzDecodeVli(In, InputBuffer, ub).Vli,
                       ub |-> ub]>>
    /\ pc' = "vlidone"
    /\ calls' = calls + 1
    /\ UNCHANGED << MetaChecks, IntegrityChecks, InputBuffer, inputId,
                    OutputBuffer, OutputSizeIn, OutputSize, Output, Dt, Rc,
                    Decoder, Chunk, Container, lz2, allowed >>

NextVli == XzDecodeVliCall

SpecVli == InitVli /\ [][NextVli]_vars

----------------------------------------------------------------------------
(* XzDecodeBlockHeader on its own, in a build with the meta checks: one   *)
(* call on a block header with the filter id and the dictionary-size     *)
(* code drawn below, *OutputSize being any of the words of OutputWords.  *)

MaxDictCode == 41

FilterIds == {33, 3}
OutputWords ==
    {<<0, 0>>, <<0, 4095>>, <<0, 4096>>, <<32767, U16 - 1>>, <<32768, 0>>,
     <<49151, U16 - 1>>, <<49152, 0>>, <<U16 - 1, U16 - 1>>}
BlockHeader(id, d) == WithCrc(<<2, 0, id, 1, d, 0, 0, 0>>)

InitDict ==
    \E id \in FilterIds, d \in 0 .. MaxDictCode, size \in OutputWords :
        StandaloneWith(TRUE, BlockHeader(id, d),
                       BfInitialize([Offset |-> 0, Size |-> 0],
                                    XzBlockHeaderSize),
                       "BlockHeader", 1, size)

XzDecodeBlockHeaderCall == XzDecodeBlockHeaderOn(OutputSize)

NextDict == XzDecodeBlockHeaderCall

SpecDict == InitDict /\ [][NextDict]_vars

----------------------------------------------------------------------------
(* The chunk loop of Lz2DecodeStream on its own, in size-query mode: the  *)
(* input is one LZMA chunk header, with the control byte and the four     *)
(* info bytes drawn below, a property byte and the end of the stream.     *)

InfoControls == {128, 159, 192, 224, 255}
InfoBytes == {0, 1, 255}
InfoInputs ==
    {<<c, i0, i1, i2, i3, LZMA_PROPERTIES, 0, 0>> :
         c \in InfoControls, i0 \in InfoBytes, i1 \in InfoBytes,
         i2 \in InfoBytes, i3 \in InfoBytes}

InitInfo ==
    \E buf \in InfoInputs :
        Standalone(buf, BfInitialize([Offset |-> 0, Size |-> 0], Len(buf)),
                   "Lz2Loop", 1)

Lz2DecodeStreamCall == Lz2DecodeStream

NextInfo == Lz2DecodeStreamCall

SpecInfo == InitInfo /\ [][NextInfo]_vars

----------------------------------------------------------------------------
(* The chunk loop of Lz2DecodeStream in size-query mode at the full width *)
(* of the cursor: Offset, Size and the tally are 32-bit words, and the    *)
(* input repeats an 8-byte pattern.  The loop is entered at offset 24,    *)
(* after the 12 bytes of the stream header and the 12 bytes of the block  *)
(* header, in a build without the meta checks.                            *)

\* one LZMA chunk per 65536 bytes (no reset, 65536 uncompressed and 65531
\* compressed bytes); one uncompressed chunk of one byte per 4 bytes; the
\* end of the stream
SkipLong == <<128, 255, 255, 255, 250, 0, 0, 0>>
SkipShort == <<1, 0, 0, 0, 1, 0, 0, 0>>
SkipEnd == <<0, 0, 0, 0, 0, 0, 0, 0>>
SkipInputs ==
    {<<SkipLong, <<U16 - 1, U16 - 1>>>>, <<SkipLong, <<16, 0>>>>,
     <<SkipLong, <<0, 28>>>>, <<SkipShort, <<0, 64>>>>,
     <<SkipShort, <<0, 26>>>>, <<SkipEnd, <<0, 64>>>>, <<SkipEnd, <<0, 24>>>>}

\* the rest of the iteration, after the info bytes: the reset test, the
\* tally and the payload, which is skipped without a look at BfSeek's result
Lz2SkipPayload(in, buf, controlByte, chunk) ==
    LET pr == BfRead32(in, buf, 0)
    IN  IF NeedsProperties(controlByte)
           /\ (~pr.ok \/ pr.Byte # LZMA_PROPERTIES)
        THEN [next |-> "fail", In |-> pr.In, Chunk |-> chunk,
              add |-> <<0, 0>>]
        ELSE IF ~NeedsProperties(controlByte)
                /\ ResetState(controlByte) # Lzma2NoReset
        THEN [next |-> "fail", In |-> in, Chunk |-> chunk, add |-> <<0, 0>>]
        ELSE [next |-> "loop",
              In |-> BfSeek32(IF NeedsProperties(controlByte)
                              THEN pr.In ELSE in,
                              W32(IF IsLzma(controlByte) = 1
                                  THEN chunk.CompressedSize
                                  ELSE chunk.RawSize)).In,
              Chunk |-> chunk, add |-> W32(chunk.RawSize)]

\* one iteration of the loop with GetSizeOnly set: next is "fail" (return
\* false), "end" (return true) or "loop" (continue), add the bytes added
\* to the tally
Lz2Skip32(in, buf, chunk) ==
    LET r == BfRead32(in, buf, 0)
        lzma == IsLzma(BfRead32(in, buf, 0).Byte) = 1
        s == BfSeek32(BfRead32(in, buf, 0).In,
                      <<0, IF IsLzma(BfRead32(in, buf, 0).Byte) = 1
                           THEN 4 ELSE 2>>)
    IN  IF ~r.ok
        THEN [next |-> "fail", In |-> r.In, Chunk |-> chunk, add |-> <<0, 0>>]
        ELSE IF IsEndOfStream(r.Byte)
        THEN [next |-> "end", In |-> r.In, Chunk |-> chunk, add |-> <<0, 0>>]
        ELSE IF ~s.ok
        THEN [next |-> "fail", In |-> s.In, Chunk |-> chunk, add |-> <<0, 0>>]
        ELSE Lz2SkipPayload(s.In, buf, r.Byte,
                 [RawSize |->
                      (IF lzma THEN LzmaRawSize(r.Byte) * 65536 ELSE 0)
                        + BfByte(buf, s.at, in.Size, 0) * 256
                        + BfByte(buf, Add32(s.at, <<0, 1>>), in.Size, 0) + 1,
                  CompressedSize |->
                      IF lzma
                      THEN (BfByte(buf, Add32(s.at, <<0, 2>>), in.Size, 0)
                              * 256
                              + BfByte(buf, Add32(s.at, <<0, 3>>), in.Size, 0)
                              + 1) % U16
                      ELSE chunk.CompressedSize])

\* the loop on the input i after k chunks of 65536 bytes were skipped; k
\* is 0 at the entry of the loop
SkipState(i, k) ==
    /\ MetaChecks = FALSE
    /\ IntegrityChecks = FALSE
    /\ InputBuffer = i[1]
    /\ inputId = <<"A", 0>>
    /\ OutputBuffer = "NULL"
    /\ OutputSizeIn = <<0, 0>>
    /\ OutputSize = <<k, 0>>
    /\ Output = << >>
    /\ In = [Offset |-> <<k, 24>>, Size |-> i[2]]
    /\ Dt = [BufferSize |-> 0, Offset |-> 0, Limit |-> 0, Start |-> 0]
    /\ Rc = [Range |-> <<0, 0>>, Code |-> <<0, 0>>, Remaining |-> 0,
             Size |-> 0]
    /\ Decoder = [state |-> 0, rep |-> <<0, 0, 0, 0>>, base |-> 0,
                  probs |-> << >>]
    /\ Chunk = IF k = 0 THEN [RawSize |-> 0, CompressedSize |-> 0]
               ELSE [RawSize |-> 65536, CompressedSize |-> 65531]
    /\ Container = [HeaderSize |-> 0, IndexSize |-> 0,
                    UncompressedBlockSize |-> 0, UnpaddedBlockSize |-> 0,
                    ChecksumSize |-> 0, ChecksumError |-> FALSE]
    /\ pc = "Lz2Loop"
    /\ ret = FALSE
    /\ lz2 = NoChunk
    /\ calls = 0
    /\ allowed = [args |-> {}, budget |-> 1]
    /\ log = << >>

\* the entry of the loop on every input, and the loop on the longest
\* input when its last chunks are due
InitSkip ==
    \/ \E i \in SkipInputs : SkipState(i, 0)
    \/ \E k \in {U16 - 2, U16 - 1} :
           SkipState(<<SkipLong, <<U16 - 1, U16 - 1>>>>, k)

Lz2SkipCall ==
    /\ pc = "Lz2Loop"
    /\ GetSizeOnly
    /\ In' = Lz2Skip32(In, InputBuffer, Chunk).In
    /\ Chunk' = Lz2Skip32(In, InputBuffer, Chunk).Chunk
    /\ OutputSize' = Add32(OutputSize, Lz2Skip32(In, InputBuffer, Chunk).add)
    /\ pc' = IF Lz2Skip32(In, InputBuffer, Chunk).next = "loop"
             THEN "Lz2Loop" ELSE "idle"
    /\ ret' = (Lz2Skip32(In, InputBuffer, Chunk).next = "end")
    /\ UNCHANGED << MetaChecks, IntegrityChecks, InputBuffer, inputId,
                    OutputBuffer, OutputSizeIn, Output, Dt, Rc, Decoder,
                    Container, lz2, calls, allowed, log >>

NextSkip == Lz2SkipCall

SpecSkip == InitSkip /\ [][NextSkip]_vars

----------------------------------------------------------------------------
(* Properties *)

\* an XzDecode call has returned; inputId, OutputBuffer, OutputSizeIn, ret,
\* OutputSize and Output are its arguments and results
Returned == pc = "idle" /\ calls > 0

\* the call that returned last followed a size query of the same input
\* that returned true, with a buffer of the size the query reported
FollowsQuery ==
    /\ Returned
    /\ Len(log) >= 2
    /\ OutputBuffer = "buf"
    /\ log[Len(log) - 1].buffer = "NULL"
    /\ log[Len(log) - 1].ret
    /\ log[Len(log) - 1].id = inputId
    /\ log[Len(log) - 1].size = OutputSizeIn

\* C1: for every valid input a size query (OutputBuffer NULL, *OutputSize
\* 0) returns true, and the decode of the same input that follows it with
\* a buffer of the reported size returns true and reports that same size.
C1_SizeQueryAgrees ==
    /\ (Returned /\ OutputBuffer = "NULL" /\ Valid(inputId)) => ret
    /\ (FollowsQuery /\ Valid(inputId)) => (ret /\ OutputSize = OutputSizeIn)

\* C2: when XzDecode returns true in decode mode, *OutputSize is the sum
\* of the uncompressed sizes of the chunks processed, the dictionary's
\* final position and the number of bytes written; for a valid input these
\* bytes are the original data.
C2_OutputSizeIsLength ==
    (Returned /\ ret /\ OutputBuffer = "buf") =>
        /\ OutputSize = lz2.sum
        /\ OutputSize = Dt.Offset
        /\ OutputSize = Len(Output)
        /\ Valid(inputId) => Output = Plain(inputId)

C2_Witness ==
    /\ Returned /\ ret /\ OutputBuffer = "buf"
    /\ lz2.chunks = 2
    /\ OutputSize = Len(PlainA) + Len(PlainB)

\* C3: two calls with the same valid input, the same output buffer and the
\* same output size return the same value, the same *OutputSize and the
\* same output, whatever calls ran before or between them.
C3_Deterministic ==
    \A i, j \in 1 .. Len(log) :
        (/\ Valid(log[i].id)
         /\ log[i].id = log[j].id
         /\ log[i].buffer = log[j].buffer
         /\ log[i].sizeIn = log[j].sizeIn) => log[i] = log[j]

C3_Witness ==
    /\ Len(log) = 3
    /\ log[1].id = <<"A", 0>> /\ log[1].buffer = "buf" /\ log[1].ret
    /\ log[1].out = PlainA
    /\ log[2].id # log[1].id /\ ~log[2].ret
    /\ log[3] = log[1]

\* C4: in decode mode no byte is ever written at an index at or beyond the
\* caller's *OutputSize, and a call in which some chunk's size would carry
\* the dictionary's position beyond the output size returns false.
C4_NoOverflow ==
    /\ Len(Output) <= OutputSizeIn
    /\ (Returned /\ lz2.overflow) => ~ret

C4_Witness ==
    /\ Returned /\ lz2.overflow /\ ~ret
    /\ lz2.chunks = 1
    /\ Len(Output) = OutputSizeIn

\* C5: a valid stream less one or more of its trailing bytes makes XzDecode
\* return false, and *OutputSize is then unchanged or strictly less than
\* the true decompressed size.
C5_TruncationFails ==
    (Returned /\ inputId[2] > 0) =>
        /\ ~ret
        /\ OutputSize = OutputSizeIn \/ OutputSize < Len(Plain(inputId))

\* C5, amended: in a build with the meta checks a valid stream less one or
\* more of its trailing bytes makes XzDecode return false, and *OutputSize
\* is then unchanged or at most the true decompressed size.
C5_TruncationFailsMeta ==
    (Returned /\ inputId[2] > 0 /\ MetaChecks) =>
        /\ ~ret
        /\ OutputSize = OutputSizeIn \/ OutputSize <= Len(Plain(inputId))

C5_Witness ==
    /\ Returned /\ inputId[2] > 0 /\ MetaChecks /\ ~ret
    /\ OutputSize = Len(Plain(inputId))
    /\ OutputSize # OutputSizeIn

\* C6: after the chunk loop reads a control byte in 0x01 .. 0x7F,
\* Lz2DecodeStream has returned false, nothing was copied to the output
\* and the tally is what it was, in both modes.
C6_UncompressedRejected ==
    lz2.ctl \in 1 .. 127 =>
        /\ lz2.ret = "false"
        /\ Output = lz2.out
        /\ OutputSize = lz2.tally

\* C7: an LZMA chunk whose reset flag is 'properties' or 'full' has exactly
\* one property byte read right after its four info bytes (unless the
\* input ends there) and the stream fails unless that byte is 0x5D; a
\* chunk whose reset flag is 'none' has no property byte consumed.
C7_PropertyByte ==
    (lz2.ctl >= 128 /\ lz2.stage \in {"reset", "skip", "rc", "chunk"}) =>
        /\ lz2.hdr = lz2.off + 5
        /\ ResetState(lz2.ctl) \in {Lzma2PropertyReset, Lzma2FullReset} =>
              /\ \/ lz2.props = 1 /\ lz2.prop = InputBuffer[lz2.hdr + 1]
                 \/ /\ lz2.props = 0 /\ lz2.hdr = Len(InputBuffer)
                    /\ lz2.ret = "false"
              /\ lz2.prop # LZMA_PROPERTIES => lz2.ret = "false"
        /\ ResetState(lz2.ctl) = Lzma2NoReset =>
              lz2.props = 0 /\ lz2.prop = -1

C7_Witness ==
    /\ lz2.ctl = 192 /\ lz2.chunks = 1
    /\ lz2.props = 1 /\ lz2.prop = LZMA_PROPERTIES
    /\ lz2.stage = "chunk"

\* C8: Lz2DecodeStream returns true exactly when a control byte 0x00 is
\* read at a chunk boundary after every chunk before it was processed
\* successfully; the end of the input at a chunk boundary makes it return
\* false.
C8_TrueOnlyAtEnd ==
    /\ lz2.ret = "true" =>
           lz2.ctl = 0 /\ lz2.off = lz2.boundary /\ lz2.clean
    /\ (lz2.ctl = 0 /\ lz2.off = lz2.boundary /\ lz2.clean) =>
           lz2.ret = "true"
    /\ lz2.stage = "eof" => lz2.ret = "false"

\* C9: a block whose first control byte is 0x00 makes XzDecode return
\* false.
C9_EmptyRejected ==
    (Returned /\ lz2.ctl = 0 /\ lz2.off = lz2.inputStart) => ~ret

\* C9, amended: a block whose first control byte is 0x00 is an empty
\* payload: Lz2DecodeStream returns true with a tally of 0 and nothing
\* written, and XzDecode returns true with *OutputSize = 0 when the rest
\* of the container is well formed.
C9_EmptyAccepted ==
    (lz2.ctl = 0 /\ lz2.off = lz2.inputStart) =>
        /\ lz2.ret = "true"
        /\ OutputSize = 0
        /\ Output = << >>
        /\ (Returned /\ inputId = <<"E", 0>>) => ret

C9_Witness ==
    /\ Returned /\ ret /\ OutputBuffer = "buf"
    /\ MetaChecks /\ IntegrityChecks
    /\ lz2.ctl = 0 /\ lz2.off = lz2.inputStart
    /\ OutputSize = 0

\* C10: a call in which some chunk's declared payload size exceeds the
\* bytes left in the input returns false in both modes, and in size-query
\* mode the chunk loop stops at that chunk.
C10_ShortPayloadFails ==
    /\ (Returned /\ lz2.short) => ~ret
    /\ (GetSizeOnly /\ lz2.short) => lz2.ret = "false"

\* C11: a stream whose first LZMA chunk carries a full reset and whose
\* later chunks carry the state-only reset is accepted: the chunk loop
\* does not fail at the reset test of a state-only chunk, and the decode
\* of such a stream into a buffer that holds it returns true with the
\* original data.
C11_StateResetAccepted ==
    /\ (lz2.ctl >= 128 /\ ResetState(lz2.ctl) = Lzma2SimpleReset
           /\ lz2.chunks >= 1) => lz2.stage # "reset"
    /\ (Returned /\ inputId = <<"S", 0>> /\ OutputBuffer = "buf"
           /\ OutputSizeIn >= DictSize0) =>
          (ret /\ Output = Plain(inputId))

\* a + b <= c as mathematical integers, for words a, b and c
SumFits(a, b, c) == ~Carry32(a, b) /\ ~Lt32(c, Add32(a, b))

\* C18: after BfInitialize and any calls of BfRead, BfSeek and BfAlign,
\* 0 <= Offset <= Size and no call has decreased Offset; BfSeek(Length)
\* succeeded exactly when Offset + Length <= Size as mathematical
\* integers, and a successful call advanced Offset by exactly Length.
C18_CursorInvariant ==
    /\ pc = "cursor" => ~Lt32(In.Size, In.Offset)
    /\ \A i \in 1 .. Len(log) :
          (pc = "cursor") =>
              /\ ~Lt32(log[i].after.Offset, log[i].before.Offset)
              /\ log[i].op = "BfSeek" =>
                    /\ log[i].ok <=> SumFits(log[i].before.Offset,
                                              log[i].Length,
                                              log[i].before.Size)
                    /\ log[i].ok =>
                          /\ ~Carry32(log[i].before.Offset, log[i].Length)
                          /\ log[i].after.Offset =
                                Add32(log[i].before.Offset, log[i].Length)

\* the number of bytes from the offset o up to the next multiple of 4
PadCount(o) == (4 - (o[2] % 4)) % 4

\* the k bytes of the input from the offset o exist and are zero
PadIsZero(buf, o, k, size) ==
    /\ SumFits(o, <<0, k>>, size)
    /\ \A j \in 0 .. k - 1 : BfByte(buf, Add32(o, <<0, j>>), size, 1) = 0

\* C19: BfAlign returns true exactly when every byte from Offset up to
\* the next multiple of 4 exists in the input and is 0x00; on success
\* Offset is a multiple of 4 and advanced by fewer than 4 bytes, and by
\* nothing when it was a multiple of 4 already.
C19_AlignPadding ==
    \A i \in 1 .. Len(log) :
        (pc = "cursor" /\ log[i].op = "BfAlign") =>
            /\ log[i].ok <=> PadIsZero(InputBuffer, log[i].before.Offset,
                                       PadCount(log[i].before.Offset),
                                       log[i].before.Size)
            /\ log[i].ok =>
                  /\ log[i].after.Offset[2] % 4 = 0
                  /\ ~Carry32(log[i].before.Offset,
                              <<0, PadCount(log[i].before.Offset)>>)
                  /\ log[i].after.Offset =
                        Add32(log[i].before.Offset,
                              <<0, PadCount(log[i].before.Offset)>>)

\* C12: with the integrity checks, a stream whose check type is None has
\* no block checksum read or compared, and an otherwise valid stream of
\* that type is accepted: its decode into a buffer that holds it returns
\* true with the original data.
C12_CheckNoneAccepted ==
    (Returned /\ IntegrityChecks /\ inputId = <<"N", 0>>
       /\ OutputBuffer = "buf" /\ OutputSizeIn >= DictSize0) =>
        (ret /\ Output = Plain(inputId))

\* C13: after an XzDecode call XzChecksumError() is true exactly when the
\* call failed because of a CRC-32 mismatch: it is true after the decode
\* of a stream with one bit flipped in the stream header's CRC field (with
\* the integrity checks), and false after a call that succeeded or that
\* failed on a wrong property byte or a truncated input.
C13_ChecksumError ==
    /\ (Returned /\ IntegrityChecks /\ inputId = <<"H", 0>>) =>
           (~ret /\ XzChecksumError)
    /\ (Returned /\ ret) => ~XzChecksumError
    /\ (Returned /\ (inputId[1] = "P" \/ inputId[2] > MaxTrunc - 4)) =>
           ~XzChecksumError

\* C14: with the meta checks XzDecode returns true only if the two flag
\* bytes of the stream footer equal the two flag bytes of the stream
\* header.
C14_FooterFlagsMatch ==
    (Returned /\ ret /\ MetaChecks) =>
        LE16(InputBuffer, In.Offset - 4) = LE16(InputBuffer, 6)

\* the variable-length integer at the offset at of buf is n, as a
\* mathematical integer, and the number of its bytes
RECURSIVE VliIs(_, _, _)
VliIs(buf, at, n) ==
    IF buf[at + 1] < 128 THEN buf[at + 1] = n
    ELSE buf[at + 1] % 128 = n % 128 /\ VliIs(buf, at + 1, n \div 128)

RECURSIVE VliLen(_, _)
VliLen(buf, at) == IF buf[at + 1] < 128 THEN 1 ELSE 1 + VliLen(buf, at + 1)

\* where the index that was decoded starts: before the footer, the CRC
\* of the index and the index itself
IndexAt == In.Offset - XzStreamFooterSize - 4 - Container.IndexSize
UnpaddedAt == IndexAt + 1 + VliLen(InputBuffer, IndexAt + 1)
UncompressedAt == UnpaddedAt + VliLen(InputBuffer, UnpaddedAt)

\* C15: with the meta checks XzDecode returns true only if the index
\* starts with 0x00, declares one block, and records as unpadded size the
\* block header size plus the input bytes the LZMA2 stream took plus the
\* checksum size, and as uncompressed size the value left in *OutputSize.
C15_IndexMatches ==
    (Returned /\ ret /\ MetaChecks) =>
        /\ InputBuffer[IndexAt + 1] = 0
        /\ VliIs(InputBuffer, IndexAt + 1, 1)
        /\ VliIs(InputBuffer, UnpaddedAt,
                 XzBlockHeaderSize + (lz2.off + 1 - lz2.inputStart)
                   + Container.ChecksumSize)
        /\ VliIs(InputBuffer, UncompressedAt, OutputSize)

\* the index of the first byte of buf with its high bit clear, 0 if none
RECURSIVE VliEnd(_, _)
VliEnd(buf, i) ==
    IF i > Len(buf) THEN 0
    ELSE IF buf[i] < 128 THEN i ELSE VliEnd(buf, i + 1)

\* the 7-bit group i (from 0) of the integer that ends at byte e
VliGroupAt(buf, i, e) == IF i < e THEN buf[i + 1] % 128 ELSE 0

\* the sequence is one that must be accepted
VliWellFormed(buf) ==
    /\ VliEnd(buf, 1) \in 1 .. 9
    /\ VliEnd(buf, 1) > 1 => buf[VliEnd(buf, 1)] # 0

\* the sum of the groups shifted to their places is w, a 32-bit word:
\* the groups from bit 32 up are zero and w holds the others
VliSumIs(buf, e, w) ==
    /\ \A i \in 5 .. 8 : VliGroupAt(buf, i, e) = 0
    /\ VliGroupAt(buf, 4, e) < 16
    /\ w = Add32(W32(VliGroupAt(buf, 0, e) + VliGroupAt(buf, 1, e) * 2^7
                       + VliGroupAt(buf, 2, e) * 2^14
                       + VliGroupAt(buf, 3, e) * 2^21),
                 <<VliGroupAt(buf, 4, e) * 4096, 0>>)

\* C17: XzDecodeVli accepts exactly the sequences of 1 to 9 bytes that end
\* at the first byte with its high bit clear and, when longer than one
\* byte, do not end in 0x00, and the value it returns for an accepted
\* sequence is the sum of its 7-bit groups (byte i & 0x7F) << 7i, none
\* of them lost.
C17_VliExact ==
    pc = "vlidone" =>
        /\ log[1].ok <=> VliWellFormed(InputBuffer)
        /\ log[1].ok =>
              VliSumIs(InputBuffer, VliEnd(InputBuffer, 1), log[1].Vli)

\* m * 2^e as a mathematical integer, written as a word: for e <= 30 and
\* m <= 3 it is below 2^32
PowerWord(m, e) == IF e >= 16 THEN <<m * 2^(e - 16), 0>> ELSE W32(m * 2^e)

ChunkConsumed == In.Offset - (lz2.hdr + lz2.props)
ChunkWritten == Len(Output) - Len(lz2.out)

ChunkEndsAsDeclared ==
    /\ Rc.Code = <<0, 0>>
    /\ ChunkConsumed = Chunk.CompressedSize
    /\ ChunkWritten = Chunk.RawSize

\* C20: Lz2DecodeChunk returns true, and adds the chunk's size to the
\* tally, only if after LzDecode the coder's code is 0, the coder consumed
\* exactly CompressedSize bytes and the dictionary wrote exactly RawSize
\* bytes since the chunk started; on a mismatch, and whenever the call
\* returns false, the tally is left as it was and the stream fails.
C20_ChunkChecked ==
    [][/\ pc = "ChunkEnd" /\ pc' = "Lz2Loop" =>
            /\ ChunkEndsAsDeclared
            /\ OutputSize' = OutputSize + Chunk.RawSize
       /\ pc = "ChunkEnd" /\ ~ChunkEndsAsDeclared =>
            pc' = "idle" /\ ~ret' /\ OutputSize' = OutputSize
       /\ pc \in {"Chunk", "LzDecode"} =>
            /\ OutputSize' = OutputSize
            /\ pc' \in {"LzDecode", "ChunkEnd"} \/ (pc' = "idle" /\ ~ret')
      ]_vars

\* a later chunk ended as declared and was added to the tally
C20_Witness ==
    /\ pc = "Lz2Loop" /\ lz2.chunks = 2 /\ Rc.Code = <<0, 0>>
    /\ OutputSize = Len(PlainA) + Len(PlainB)
    /\ OutputBuffer = "buf" /\ lz2.ctl >= 128

\* the first chunk's header was read from an input of InfoInputs
InfoRead == pc = "Lz2Loop" /\ lz2.chunks = 1 /\ InputBuffer \in InfoInputs

\* C21: for an LZMA control byte c and info bytes i0 .. i3 the framer
\* holds uncompressedSize = (((c & 0x1F) << 16) | (i0 << 8) | i1) + 1, in
\* 1 .. 2097152, and compressedSize = ((i2 << 8) | i3) + 1, in 1 .. 65536.
C21_ChunkSizes ==
    InfoRead =>
        /\ Chunk.RawSize = (InputBuffer[1] % 32) * 65536
                              + InputBuffer[2] * 256 + InputBuffer[3] + 1
        /\ Chunk.RawSize \in 1 .. 2097152
        /\ Chunk.CompressedSize = InputBuffer[4] * 256 + InputBuffer[5] + 1
        /\ Chunk.CompressedSize \in 1 .. 65536

\* a step of a size query, after the entry of the call
SizeQueryStep == GetSizeOnly /\ pc # "idle"

\* the step sets no dictionary limit, appends no symbol, initialises no
\* range coder and does not enter Lz2DecodeChunk; the block's CRC32 is
\* taken over no byte of the output buffer
OutputUntouched ==
    /\ Dt' = Dt /\ Rc' = Rc /\ Output' = Output
    /\ pc' \notin {"Chunk", "LzDecode", "ChunkEnd"}
    /\ (pc = "BlockTail" /\ IntegrityChecks) => OutputSize = 0

\* the chunk was skipped: the cursor is past its payload and the tally
\* holds its uncompressed size more
ChunkSkipped ==
    /\ In'.Offset = lz2'.boundary
    /\ OutputSize' = OutputSize + Chunk'.RawSize

\* C22: in size-query mode no step sets the dictionary limit, appends a
\* symbol, initialises the range coder or runs the LZMA engine, and the
\* output buffer is neither read nor written; each chunk advances the
\* cursor past its payload and adds its uncompressedSize to the tally.
C22_SizeQueryFrame ==
    [][SizeQueryStep =>
          /\ OutputUntouched
          /\ (pc = "Lz2Loop" /\ pc' = "Lz2Loop") => ChunkSkipped]_vars

\* C23: within one XzDecode call Lz2DecodeChunk and the LZMA engine never
\* run before LzInitialize did in that call; a first LZMA chunk without a
\* full or property reset is rejected, not decoded.
C23_InitialisedBeforeDecode ==
    pc \in {"Chunk", "LzDecode", "ChunkEnd"} => lz2.inited

\* XzDecodeBlock after the padding: what BfSeek(Container->ChecksumSize)
\* reserves, and the bytes the comparison with the block's CRC32 examines
ChecksumSeek == BfSeek(BfAlign(In, InputBuffer).In, Container.ChecksumSize)
ChecksumReserved ==
    IF BfAlign(In, InputBuffer).ok /\ ChecksumSeek.ok
    THEN {ChecksumSeek.at + k : k \in 0 .. Container.ChecksumSize - 1}
    ELSE {}
ChecksumExamined ==
    IF IntegrityChecks /\ BfAlign(In, InputBuffer).ok /\ ChecksumSeek.ok
    THEN {ChecksumSeek.at + k : k \in 0 .. 3}
    ELSE {}

\* C24: every input byte a framer examines lies at an index below
\* InputSize, inside the view of a successful BfSeek or BfRead of at least
\* that many bytes; here for the block checksum, which is compared through
\* the pointer of BfSeek(Container->ChecksumSize).
C24_ReadsInsideReservations ==
    pc = "BlockTail" =>
        /\ ChecksumExamined \subseteq ChecksumReserved
        /\ \A i \in ChecksumExamined : i < In.Size

\* no LZMA sequence is decoded of a chunk below LZMA_MAX_SEQUENCE_SIZE
DecodedChunksAreLong ==
    pc \in {"LzDecode", "ChunkEnd"} =>
        Chunk.CompressedSize >= LZMA_MAX_SEQUENCE_SIZE

\* C25, as stated: no LZMA sequence is decoded of a chunk whose compressed
\* size is below LZMA_MAX_SEQUENCE_SIZE, and a stream that contains such a
\* chunk fails.
C25_ShortChunkFails ==
    /\ DecodedChunksAreLong
    /\ (Returned /\ lz2.small) => ~ret

\* C25, amended: no LZMA sequence is decoded of a chunk whose compressed
\* size is below LZMA_MAX_SEQUENCE_SIZE, and the decode of a stream that
\* contains such a chunk fails; a size query never calls Lz2DecodeChunk.
C25_ShortChunkFailsDecode ==
    /\ DecodedChunksAreLong
    /\ (Returned /\ lz2.small /\ ~GetSizeOnly) => ~ret
    /\ (GetSizeOnly /\ pc # "idle") => pc # "Chunk"

\* Lz2DecodeChunk refused the short second chunk of a stream
C25_Witness ==
    /\ Returned /\ ~ret /\ ~GetSizeOnly /\ lz2.small
    /\ lz2.chunks = 1 /\ lz2.stage = "chunk"
    /\ Chunk.CompressedSize < LZMA_MAX_SEQUENCE_SIZE

\* C26: XzDecode terminates because each iteration of the chunk loop
\* returns or leaves the input cursor strictly further on, so that no
\* iteration begins where an earlier one began.
C26_Terminates ==
    [][(pc = "Lz2Loop" /\ pc' = "Lz2Loop") => Lt32(In.Offset, In'.Offset)]_vars

\* C27: the dictionary keeps 0 <= position <= limit <= bufferSize through
\* every set_limit, literal and copy; a literal put at the limit and a copy
\* that reaches the limit fail, and no byte is written at or beyond the limit.
DictionaryOrdered ==
    /\ 0 <= Dt.Offset /\ Dt.Offset <= Dt.Limit /\ Dt.Limit <= Dt.BufferSize
    /\ Len(Output) <= Dt.Limit

FullDictionaryRefuses ==
    /\ Dt.Offset = Dt.Limit =>
           \A b \in {0, 255} :
               DtPutSymbol(Dt, Output, b)
                   = [ok |-> FALSE, Dt |-> Dt, Output |-> Output]
    /\ (Dt.Offset >= 1 /\ Dt.Limit - Dt.Offset <= 3) =>
           \A n \in 1 .. 2 :
               LET c == DtCopyMatch(Dt, Output, 1, Dt.Limit - Dt.Offset + n)
               IN  /\ ~c.ok /\ c.Dt.Offset = Dt.Limit
                   /\ Len(c.Output) <= Dt.Limit

C27_DictionaryInvariant == DictionaryOrdered /\ FullDictionaryRefuses

\* a copy of the engine has stopped at the limit of a chunk
C27_Witness ==
    /\ pc = "idle" /\ lz2.full /\ ret = FALSE
    /\ Dt.Offset = Dt.Limit /\ Dt.Limit > 0 /\ Len(Output) = Dt.Limit

\* C28: a match or rep copy that writes anything has a distance d with
\* 1 <= d <= position; a copy whose distance exceeds the position fails
\* and writes nothing, so it reads no byte before the start of the output.
C28_CopyDistance ==
    /\ (lz2.copy.ok \/ lz2.copy.written > 0) =>
           /\ 1 <= lz2.copy.distance
           /\ lz2.copy.distance <= lz2.copy.position
    /\ lz2.copy.distance > lz2.copy.position =>
           ~lz2.copy.ok /\ lz2.copy.written = 0

\* a copy was refused because its distance exceeded the position
C28_Witness ==
    /\ pc = "idle" /\ ret = FALSE /\ lz2.copy.distance > lz2.copy.position
    /\ ~lz2.copy.ok /\ Len(Output) = lz2.copy.position

\* C29: every bit of the range coder is decided on a range of at least
\* 2^24, range and code stay 32-bit words, every normalisation that finds
\* the range below 2^24 shifts in one input byte and takes one byte from the
\* chunk's budget, and with the budget used up it fails without reading.
RcWords ==
    /\ Rc.Range \in (0 .. U16 - 1) \X (0 .. U16 - 1)
    /\ Rc.Code \in (0 .. U16 - 1) \X (0 .. U16 - 1)

RcStarvedFails ==
    lz2.coder.starved => pc = "idle" /\ ret = FALSE /\ Rc.Remaining = 0

RcOneBytePerNorm ==
    pc = "LzDecode" =>
        /\ In'.Offset - In.Offset = lz2'.coder.norms
        /\ Rc.Remaining - Rc'.Remaining = lz2'.coder.norms
        /\ lz2'.coder.starved => lz2'.coder.norms = Rc.Remaining

C29_RangeNormalised ==
    /\ [](~lz2.coder.low /\ RcWords /\ Rc.Remaining >= 0 /\ RcStarvedFails)
    /\ [][RcOneBytePerNorm]_vars

\* a sequence has used up the budget of its chunk with input bytes left
C29_Witness ==
    /\ lz2.coder.starved /\ Rc.Remaining = 0 /\ Rc.Range[1] < 256
    /\ In.Offset < In.Size /\ pc = "idle" /\ ret = FALSE

\* C30: the LZMA state stays in 0..11; after a literal it is in 0..6 and
\* after a match, long rep or short rep in 7..11, so that a literal is
\* decoded as a matched literal exactly when the event before it was not a
\* literal.
LzCopyEvents == {"match", "rep", "shortrep"}

LzTransitionsInRange ==
    \A s \in 0 .. 11 :
        /\ LzNextLiteral(s) \in 0 .. 6
        /\ {LzNextMatch(s), LzNextRep(s), LzNextShortRep(s)} \subseteq 7 .. 11

C30_StateTracksEvent ==
    /\ Decoder.state \in 0 .. 11
    /\ LzTransitionsInRange
    /\ lz2.event = "literal" => Decoder.state \in 0 .. 6
    /\ lz2.event = "none" => Decoder.state = 0
    /\ lz2.event \in LzCopyEvents => Decoder.state \in 7 .. 11
    /\ lz2.mode # "none" =>
           ((lz2.mode = "matched") <=> (lz2.prev \in LzCopyEvents))

\* a matched literal was decoded after a short rep
C30_Witness ==
    /\ lz2.mode = "matched" /\ lz2.prev = "shortrep"
    /\ lz2.event = "literal" /\ Decoder.state \in 1 .. 6
====
